----------------------------- MODULE McpBroker -----------------------------
(***************************************************************************)
(* The connection of an AI client to the open vault: the bridge process    *)
(* and the pipe of apps/mcp-server/src/broker.ts, the tools and the        *)
(* issued-document cache of server.ts, and the broker's server in main.ts. *)
(* Frames cross the pipe in halves, which arrive in chunks of any size.    *)
(* One connection is served at a time; the next one starts afresh.         *)
(***************************************************************************)
EXTENDS Naturals, Sequences, SequencesExt

CONSTANTS
  Passages,        \* the chunks of the vault's documents, pairs of document and chunk
  Outside,         \* the documents of another collection
  MaxDocuments,    \* MAX_ISSUED_DOCUMENTS
  MaxChunks,       \* MAX_ISSUED_CHUNKS_PER_DOCUMENT
  SearchLimit,     \* the most results of a search
  Pipelining,      \* the client sends requests before the broker is ready
  MaxRequests,     \* bound: requests of a connection
  MaxConnections,  \* bound: connections
  MaxChanges       \* bound: changes of the vault, its locks and its closing

ASSUME McpBrokerAssumption ==
  /\ MaxDocuments \in Nat /\ MaxChunks \in Nat
  /\ \A p \in Passages : p = <<p[1], p[2]>>
  /\ SearchLimit \in Nat /\ SearchLimit <= MaxDocuments /\ SearchLimit <= MaxChunks
  /\ Pipelining \in BOOLEAN
  /\ MaxRequests \in Nat /\ MaxConnections \in Nat /\ MaxChanges \in Nat

VARIABLES
  listening,    \* the broker's server accepts connections
  active,       \* the connection's transport is in activeMcpBrokerTransports
  link,         \* the broker's end of the connection
  bridge,       \* the bridge process
  sent,         \* requests written by the client
  pending,      \* requests the bridge holds back until the broker is ready
  wire,         \* halves of frames under way to the broker, in order
  held,         \* the first half of a frame in the broker's line buffer
  inbox,        \* requests parsed and not yet handled
  handled,      \* requests handled, a count
  cache,        \* issuedDocuments: documents, oldest first, each with its chunks
  issued,       \* every passage returned by a search of this connection
  disclosed,    \* what was returned last
  vault,        \* whether the vault is open or busy, and its current documents
  connections,  \* connections so far
  changes       \* changes so far

pipe == <<link, bridge, sent, pending, wire, held, inbox>>
sessionVars == <<handled, cache, issued, disclosed>>
brokerVars == <<listening, active, pipe, sessionVars, vault, connections, changes>>

----------------------------------------------------------------------------
Documents == {p[1] : p \in Passages}
Whole == 0
GrantedPassages == {p \in Passages : p[1] \notin Outside}

Nothing == [by |-> "nothing"]
Hello == 0
Halves(i) == <<<<i, 1>>, <<i, 2>>>>
AllHalves(requests) ==
  [k \in 1 .. 2 * Len(requests) |-> <<requests[(k + 1) \div 2], 2 - (k % 2)>>]

\* The requests whose last half is among these halves; a half whose first half is
\* missing makes a line that is no JSON.
Lines(halves) ==
  LET upTo[k \in 0 .. Len(halves)] ==
        IF k = 0 THEN <<>>
        ELSE IF halves[k][2] = 2 THEN Append(upTo[k - 1], halves[k][1]) ELSE upTo[k - 1]
  IN upTo[Len(halves)]
Torn(halves) == halves # <<>> /\ halves[1][2] = 2
LastOf(s, n) == IF Len(s) <= n THEN s ELSE SubSeq(s, Len(s) - n + 1, Len(s))

BrokerInit ==
  /\ listening = TRUE /\ active = FALSE
  /\ link = "none" /\ bridge = "none"
  /\ sent = 0 /\ pending = <<>> /\ wire = <<>> /\ held = <<>> /\ inbox = <<>>
  /\ handled = 0 /\ cache = <<>> /\ issued = {} /\ disclosed = Nothing
  /\ vault = [open |-> TRUE, busy |-> FALSE, current |-> Documents]
  /\ connections = 0 /\ changes = 0

----------------------------------------------------------------------------
(* The bridge: runBrokerStdioServer.                                       *)

\* The bridge connects and writes its hello.
Connect ==
  /\ listening
  /\ bridge = "none" /\ link \in {"none", "closed"}
  /\ connections < MaxConnections
  /\ connections' = connections + 1
  /\ bridge' = "waiting" /\ link' = "handshake"
  /\ wire' = Halves(Hello)
  /\ sent' = 0 /\ pending' = <<>> /\ held' = <<>> /\ inbox' = <<>>
  /\ UNCHANGED <<listening, active, sessionVars, vault, changes>>

\* mutant: requests that come before the broker is ready are dropped.
HeldBackLost(i) == <<>>
HeldBack(i) == Append(pending, i)

\* The client writes a request to the bridge.
Request ==
  /\ bridge \in {"waiting", "ready"}
  /\ sent < MaxRequests
  /\ sent' = sent + 1
  /\ IF bridge = "ready" \/ Pipelining
     THEN wire' = wire \o Halves(sent') /\ UNCHANGED pending
     ELSE pending' = HeldBack(sent + 1) /\ UNCHANGED wire
  /\ UNCHANGED <<listening, active, link, bridge, held, inbox, sessionVars, vault, connections,
                 changes>>

\* The ready line arrives: what was held back goes out in its order.
Ready ==
  /\ bridge = "waiting" /\ link = "serving"
  /\ bridge' = "ready"
  /\ wire' = wire \o AllHalves(pending)
  /\ pending' = <<>>
  /\ UNCHANGED <<listening, active, link, sent, held, inbox, sessionVars, vault, connections,
                 changes>>

\* The client closes the bridge's input, or either process ends, or the pipe breaks.
Close ==
  /\ bridge' = "none" /\ link' = "closed"
  /\ active' = FALSE
  /\ sent' = 0 /\ pending' = <<>> /\ wire' = <<>> /\ held' = <<>> /\ inbox' = <<>>
  /\ handled' = 0 /\ issued' = {} /\ disclosed' = Nothing
  /\ UNCHANGED cache

Disconnect ==
  /\ bridge # "none"
  /\ Close
  /\ UNCHANGED <<listening, vault, connections, changes>>

----------------------------------------------------------------------------
(* The broker's end: acceptOwnContextBrokerConnection and its transport.   *)

\* mutant: bytes are handed to the parser as they come, without waiting for the line.
LeftUnbuffered(halves) == <<>>
Left(halves) ==
  IF halves # <<>> /\ Last(halves)[2] = 1 THEN <<Last(halves)>> ELSE <<>>

\* A chunk before the hello is complete.  Requests that follow the hello in the chunk
\* are kept for the transport; the part of a line that may follow them stays in the
\* line buffer of the handshake, which nobody reads again.
Greet(n) ==
  LET halves == held \o SubSeq(wire, 1, n)
      lines == Lines(halves)
  IN /\ link = "handshake"
     /\ IF lines = <<>> THEN held' = Left(halves) /\ UNCHANGED <<link, inbox>>
        ELSE held' = <<>> /\ link' = "greeted" /\ inbox' = Tail(lines)
     /\ wire' = SubSeq(wire, n + 1, Len(wire))
     /\ UNCHANGED <<listening, active, bridge, sent, pending, sessionVars, vault, connections,
                    changes>>

\* mutant: one server, with its cache, for every connection.
NewServerShared == cache
NewServer == <<>>

\* The ready line is written; the transport is registered, a server is made over the
\* open vault and the transport starts.  Without a vault the socket is destroyed.
Adopt ==
  /\ link = "greeted"
  /\ IF vault.open
     THEN /\ link' = "serving" /\ active' = TRUE /\ cache' = NewServer
          /\ UNCHANGED <<bridge, sent, pending, wire, held, inbox, handled, issued, disclosed>>
     ELSE Close
  /\ UNCHANGED <<listening, vault, connections, changes>>

\* A chunk for the transport.  A line that cannot be parsed closes the connection.
Receive(n) ==
  LET halves == held \o SubSeq(wire, 1, n)
  IN /\ link = "serving"
     /\ IF Torn(halves) THEN Close
        ELSE /\ inbox' = inbox \o Lines(halves)
             /\ held' = Left(halves)
             /\ wire' = SubSeq(wire, n + 1, Len(wire))
             /\ UNCHANGED <<active, link, bridge, sent, pending, sessionVars>>
     /\ UNCHANGED <<listening, vault, connections, changes>>

----------------------------------------------------------------------------
(* The tools of createOwnContextServer.                                    *)

\* mutant: a document issued again keeps its place.
RememberInPlace(known, p) ==
  LET old == SelectSeq(known, LAMBDA e : e.document = p[1])
      new(e) == [e EXCEPT !.chunks = LastOf(Append(SelectSeq(@, LAMBDA c : c # p[2]), p[2]), MaxChunks)]
  IN IF old = <<>> THEN Append(known, [document |-> p[1], chunks |-> <<p[2]>>])
     ELSE [k \in 1 .. Len(known) |-> IF known[k].document = p[1] THEN new(known[k]) ELSE known[k]]

\* The sequence without its element at a position of K, where there is one.
Delete(s, K) == IF K = {} THEN s ELSE RemoveAt(s, CHOOSE k \in K : TRUE)

\* A chunk of a document becomes its newest.
RememberChunk(chunks, c) ==
  LastOf(Append(Delete(chunks, {k \in DOMAIN chunks : chunks[k] = c}), c), MaxChunks)

\* One result: its chunk and its document become the newest.
RememberResult(known, p) ==
  LET at == {k \in DOMAIN known : known[k].document = p[1]}
      chunks == IF at = {} THEN <<>> ELSE known[CHOOSE k \in at : TRUE].chunks
  IN Append(Delete(known, at), [document |-> p[1], chunks |-> RememberChunk(chunks, p[2])])

\* The results in their order. Alone, a mutant: no document is forgotten.
RememberAllResults(known, results) ==
  LET upTo[k \in 0 .. Len(results)] ==
        IF k = 0 THEN known ELSE RememberResult(upTo[k - 1], results[k])
  IN upTo[Len(results)]

\* rememberIssuedResults: the oldest documents go once all results are in.
RememberIssuedResults(known, results) ==
  LastOf(RememberAllResults(known, results), MaxDocuments)

\* mutant: any chunk of an issued document may be named.
IsIssuedByDocument(d, c) == \E e \in Range(cache) : e.document = d
IsIssued(d, c) ==
  \E e \in Range(cache) : e.document = d /\ (c = Whole \/ c \in Range(e.chunks))

\* mutant: a search without a collection searches them all.
InScopeUnset == {p \in Passages : p[1] \in vault.current}

\* The passages a search may return: those of current documents in its collection.
InScope == {p \in GrantedPassages : p[1] \in vault.current}
Results == {s \in BoundedSeq(InScope, SearchLimit) : IsInjective(s)}

NextRequest ==
  /\ link = "serving" /\ inbox # <<>>
  /\ inbox' = Tail(inbox)
  /\ handled' = handled + 1
  /\ UNCHANGED <<listening, active, link, bridge, sent, pending, wire, held, vault,
                 connections, changes>>

Search ==
  /\ NextRequest
  /\ vault.open /\ ~vault.busy
  /\ \E results \in Results :
       /\ cache' = RememberIssuedResults(cache, results)
       /\ issued' = issued \cup Range(results)
       /\ disclosed' = [by |-> "search", found |-> Range(results)]

Fetch(d, c) ==
  /\ NextRequest
  /\ IsIssued(d, c)
  /\ vault.open /\ ~vault.busy /\ d \in vault.current
  /\ disclosed' = [by |-> "fetch", document |-> d, chunk |-> c]
  /\ UNCHANGED <<cache, issued>>

\* The answers without content: another collection is asked for, the access cannot be
\* recorded, the vault has failed, the document is not issued or not current.
Refuse ==
  /\ NextRequest
  /\ disclosed' = Nothing
  /\ UNCHANGED <<cache, issued>>

----------------------------------------------------------------------------
(* The desktop application around the connection.                          *)

Changed ==
  /\ changes < MaxChanges
  /\ changes' = changes + 1
  /\ UNCHANGED <<listening, active, pipe, sessionVars, connections>>

\* A document is purged or imported, or an import or a purge starts or ends.
ChangeVault ==
  /\ Changed
  /\ vault.open
  /\ \/ \E d \in Documents :
          vault' = [vault EXCEPT !.current = IF d \in @ THEN @ \ {d} ELSE @ \cup {d}]
     \/ vault' = [vault EXCEPT !.busy = ~@]

CloseVault == Changed /\ vault.open /\ vault' = [vault EXCEPT !.open = FALSE]

\* stopMcpBroker, on before-quit: it closes what is registered, and no handshake.
StopMcpBroker ==
  /\ listening
  /\ listening' = FALSE
  /\ IF active THEN Close ELSE UNCHANGED <<active, pipe, sessionVars>>
  /\ UNCHANGED <<vault, connections, changes>>

Chunk == \E n \in 1 .. Len(wire) : Greet(n) \/ Receive(n)
Handle ==
  \/ Search \/ Refuse
  \/ \E p \in Passages, c \in {q[2] : q \in Passages} \cup {Whole} : Fetch(p[1], c)

BrokerNext ==
  \/ Connect \/ Request \/ Ready \/ Disconnect
  \/ Chunk \/ Adopt \/ Handle
  \/ ChangeVault \/ CloseVault \/ StopMcpBroker

BrokerSpec == BrokerInit /\ [][BrokerNext]_brokerVars

\* The event loops of the two processes deliver what is written and run what is due.
BrokerFairSpec ==
  /\ BrokerSpec
  /\ WF_brokerVars(Ready) /\ WF_brokerVars(Chunk) /\ WF_brokerVars(Adopt) /\ WF_brokerVars(Handle)

----------------------------------------------------------------------------
(* Properties.                                                             *)

\* The variables' types; the cache keeps within its two limits, holds a document and a
\* chunk of it once, and holds nothing a search of this connection has not returned.
BrokerTypeOK ==
  /\ link \in {"none", "handshake", "greeted", "serving", "closed"}
  /\ bridge \in {"none", "waiting", "ready"}
  /\ active = (link = "serving")
  /\ handled + Len(inbox) <= sent
  /\ vault.current \subseteq Documents
  /\ Len(cache) <= MaxDocuments /\ IsInjective([k \in DOMAIN cache |-> cache[k].document])
  /\ \A e \in Range(cache) : Len(e.chunks) \in 1 .. MaxChunks /\ IsInjective(e.chunks)
  /\ link = "serving" =>
       \A e \in Range(cache) : \A c \in Range(e.chunks) : <<e.document, c>> \in issued

\* Between the client and the tools no request is lost, doubled or overtaken: those
\* handled, parsed, under way and held back are, in this order, those sent.
FramesInOrder ==
  link \in {"greeted", "serving"} =>
    /\ ~Torn(held \o wire)
    /\ inbox \o Lines(held \o wire) \o pending = [k \in 1 .. sent - handled |-> handled + k]

\* Every result of the latest search can be fetched, whatever was issued before it and
\* had to be forgotten for it.
LatestIsFetchable ==
  disclosed.by = "search" =>
    \A p \in disclosed.found : IsIssued(p[1], p[2]) /\ IsIssued(p[1], Whole)

\* A request that is sent is handled, or its connection ends.
RequestsAreHandled ==
  \A n \in 1 .. MaxRequests : sent >= n ~> (handled >= n \/ link = "closed")

\* The connection keeps what IssuedContext promises: docs/ENCRYPTION_ARCHITECTURE.md:335
\* has a reconnection invalidate the identifiers of the session before it, and
\* docs/SECURITY_MODEL.md:213 only issued identifiers fetched.
Context ==
  INSTANCE IssuedContext WITH
    Granted <- GrantedPassages, Whole <- Whole, live <- (link = "serving"),
    issued <- issued, disclosed <- disclosed
ImplementsIssuedContext == Context!Spec

----------------------------------------------------------------------------
(* Inductive invariants. *)

Distinct(s) == \A i, j \in DOMAIN s : s[i] = s[j] => i = j
CacheOK(known) ==
  /\ known \in Seq([document : Documents, chunks : Seq({p[2] : p \in Passages})])
  /\ \A i, j \in DOMAIN known : known[i].document = known[j].document => i = j
  /\ \A i \in DOMAIN known :
       Len(known[i].chunks) \in 1 .. MaxChunks /\ Distinct(known[i].chunks)
Within(known, P) ==
  \A i \in DOMAIN known : \A j \in DOMAIN known[i].chunks :
    <<known[i].document, known[i].chunks[j]>> \in P

\* The cache is in order, and a session's cache holds what the session has issued; there
\* is nothing issued, handled or disclosed outside of a session.
SessionInvariant ==
  /\ link \in {"none", "handshake", "greeted", "serving", "closed"}
  /\ active = (link = "serving")
  /\ CacheOK(cache) /\ Len(cache) <= MaxDocuments
  /\ issued \subseteq GrantedPassages
  /\ link = "serving" => Within(cache, issued)
  /\ link # "serving" => handled = 0 /\ issued = {} /\ disclosed = Nothing
  /\ LatestIsFetchable

\* A half that ends a frame follows a half that begins one.
Paired(halves) ==
  \A k \in DOMAIN halves : halves[k][2] = 2 => k > 1 /\ halves[k - 1][2] = 1
Numbered(first, n) == [k \in 1 .. n |-> first + k]

\* A bridge that waits for the broker: the hello is all that crosses the pipe before the
\* ready line, and what follows it are whole frames, in the order of the requests.
FramesInvariant ==
  /\ {sent, handled} \subseteq Nat /\ handled <= sent
  /\ {pending, inbox} \subseteq Seq(Nat) /\ {held, wire} \subseteq Seq(Nat \X {1, 2})
  /\ bridge \in {"none", "waiting", "ready"} /\ (bridge = "none") = (link \in {"none", "closed"})
  /\ bridge = "ready" => link = "serving" /\ pending = <<>>
  /\ link # "serving" => inbox = <<>>
  /\ link = "handshake" => held \o wire = Halves(Hello)
  /\ link = "greeted" => held = <<>> /\ wire = <<>>
  /\ link \in {"handshake", "greeted"} => pending = Numbered(0, sent)
  /\ link = "serving" =>
       /\ Paired(held \o wire)
       /\ inbox \o Lines(held \o wire) \o pending = Numbered(handled, sent - handled)
=============================================================================
