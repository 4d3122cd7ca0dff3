----------------------------- MODULE ClientExec -----------------------------
(***************************************************************************)
(* A request of courierust_client over HTTP/1.1: redirects around the      *)
(* retry policy around one exchange on a pooled or fresh connection        *)
(* (client/mod.rs), and the exchange itself (client/h1.rs).  Callers share *)
(* the pool; a server may close a connection at any time, and a caller     *)
(* cannot tell whether a request it lost the answer of was executed.       *)
(***************************************************************************)
EXTENDS Naturals, Sequences, FiniteSets, SequencesExt

CONSTANTS CeCallers,     \* requests of the application, each on its own thread
          CeConns,       \* bound: connections alive at once
          CeOrigins,     \* scheme and authority: the key of the h1 pool
          CeRequests,    \* [method, body, origin] the callers may ask for
          CePooled,      \* max_connections_per_host
          CeAttempts,    \* RetryPolicy::attempts; 1: no policy
          CeRedirects    \* max_redirects

CeMethods == {"GET", "HEAD", "OPTIONS", "TRACE", "PUT", "DELETE", "POST"}

ASSUME CeAssumption ==
    /\ CeAttempts \in Nat \ {0} /\ CeRedirects \in Nat /\ CePooled \in Nat
    /\ CeConns \subseteq Nat \ {0}
    /\ <<"none", "none">> \notin CeOrigins
    /\ CeRequests \subseteq [method : CeMethods, body : {"none", "bytes", "stream"}, origin : CeOrigins]

VARIABLES call,     \* per caller: where execute() is, and with what
          hconn,    \* per connection: who has it, and what is on it
          hpool,    \* per origin: the connections at rest
          posts,    \* per caller: executions of its POST, since a redirect asked for a new one
          creds     \* per caller: the origins that saw its credentials

cevars == <<call, hconn, hpool, posts, creds>>

NoConn == 0
NoOrigin == <<"none", "none">>
Unspoken(o, open) == [origin |-> o, open |-> open, own |-> FALSE, asked |-> <<>>, done |-> 0, cut |-> FALSE]
Unused == Unspoken(NoOrigin, FALSE)
Idle == [pc |-> "idle", method |-> "GET", body |-> "none", had |-> FALSE, origin |-> NoOrigin, cred |-> FALSE,
         depth |-> 0, attempt |-> 1, conn |-> NoConn, reused |-> FALSE, err |-> "none",
         answer |-> "none"]

CeInit ==
    /\ call = [c \in CeCallers |-> Idle]
    /\ hconn = [k \in CeConns |-> Unused]
    /\ hpool = [o \in CeOrigins |-> <<>>]
    /\ posts = [c \in CeCallers |-> 0]
    /\ creds = [c \in CeCallers |-> {}]

Idempotent(method) == method # "POST"
CeGoto(c, l) == call' = [call EXCEPT ![c].pc = l]
Fails(c, l, e) == call' = [call EXCEPT ![c].pc = l, ![c].err = e, ![c].conn = NoConn, ![c].reused = FALSE]
Returns(c) == call' = [call EXCEPT ![c] = [Idle EXCEPT !.pc = "returned", !.answer = call[c].answer]]
Discard(k) == hconn' = [hconn EXCEPT ![k] = Unused]
Free == {k \in CeConns : hconn[k].origin = NoOrigin}

\* execute(): the caller's fields and the default ones, credentials among them.
Execute(c) ==
    /\ call[c].pc = "idle"
    /\ \E r \in CeRequests :
          call' = [call EXCEPT ![c] = [Idle EXCEPT !.pc = "take", !.method = r.method, !.body = r.body,
                                       !.had = r.body # "none", !.origin = r.origin, !.cred = TRUE]]
    /\ UNCHANGED <<hconn, hpool, posts, creds>>

-----------------------------------------------------------------------------
(* One exchange: execute_h1() *)

\* The first connection of the pool is taken out under the lock.
TakePooled(c) ==
    LET o == call[c].origin IN
    /\ call[c].pc = "take"
    /\ IF hpool[o] # <<>>
         THEN /\ call' = [call EXCEPT ![c].pc = "probe", ![c].conn = Head(hpool[o])]
              /\ hpool' = [hpool EXCEPT ![o] = Tail(@)]
         ELSE CeGoto(c, "open") /\ UNCHANGED hpool
    /\ UNCHANGED <<hconn, posts, creds>>

\* is_alive(): readable, that is closed or answering unasked, is spent.
ProbeConn(c) ==
    LET k == call[c].conn IN
    /\ call[c].pc = "probe"
    /\ IF hconn[k].open /\ hconn[k].done = 0
         THEN call' = [call EXCEPT ![c].pc = "send", ![c].reused = TRUE] /\ UNCHANGED hconn
         ELSE call' = [call EXCEPT ![c].pc = "take", ![c].conn = NoConn] /\ Discard(k)
    /\ UNCHANGED <<hpool, posts, creds>>

\* open_transport() and from_stream_seeded(): a fresh connection, or an error.
OpenConn(c) ==
    /\ call[c].pc \in {"open", "reopen"}
    /\ \/ \E k \in Free :
             /\ k = CHOOSE f \in Free : \A g \in Free : f <= g
             /\ hconn' = [hconn EXCEPT ![k] = Unspoken(call[c].origin, TRUE)]
             /\ call' = [call EXCEPT ![c].pc = "send", ![c].conn = k, ![c].reused = FALSE]
       \/ Fails(c, "failed", "Io") /\ UNCHANGED hconn
    /\ UNCHANGED <<hpool, posts, creds>>

\* send(): a streaming body is refused before anything is written; the caller's own
\* deadline is armed, the head and the body are written.
SendRequest(c) ==
    LET k == call[c].conn IN
    /\ call[c].pc = "send"
    /\ IF call[c].body = "stream"
         THEN Fails(c, "failed", "Protocol") /\ Discard(k) /\ UNCHANGED creds
         ELSE /\ hconn' = [hconn EXCEPT ![k].own = TRUE,
                              ![k].asked = IF hconn[k].open THEN Append(@, c) ELSE @]
              /\ creds' = [creds EXCEPT ![c] = IF call[c].cred THEN @ \union {call[c].origin} ELSE @]
              /\ CeGoto(c, "await")
    /\ UNCHANGED <<hpool, posts>>

\* is_stale_failure() and the stale retry: a reused connection that gave no byte.
StaleRetry(c, e, started) ==
    call[c].reused /\ Idempotent(call[c].method) /\ ~started /\ e \in {"UnexpectedEof", "Canceled"}

\* An exchange that failed: the connection is dropped.
ExchangeFails(c, e, started) ==
    /\ IF StaleRetry(c, e, started) THEN Fails(c, "reopen", "none") ELSE Fails(c, "failed", e)
    /\ Discard(call[c].conn)

\* After the exchange: the client's own deadline is armed again.
Rested(k) == [hconn[k] EXCEPT !.own = FALSE, !.asked = Tail(@), !.done = 0]

\* pool_h1(): is_reusable(), and at most CePooled at rest for an origin.
PoolH1(c, reusable) ==
    LET k == call[c].conn
        o == call[c].origin
        kept == reusable /\ Len(hpool[o]) < CePooled IN
    /\ hpool' = [hpool EXCEPT ![o] = IF kept THEN Append(@, k) ELSE @]
    /\ hconn' = [hconn EXCEPT ![k] = IF kept THEN Rested(k) ELSE Unused]

\* finish_response(): a whole answer; it may end the connection (Connection: close,
\* HTTP/1.0, a body that ends with it).
Answered(c) ==
    /\ call[c].pc = "await" /\ hconn[call[c].conn].done > 0
    /\ \E reusable \in BOOLEAN : PoolH1(c, reusable)
    /\ call' = [call EXCEPT ![c].pc = "answered", ![c].conn = NoConn, ![c].reused = FALSE,
                            ![c].answer = Head(hconn[call[c].conn].asked)]
    /\ UNCHANGED <<posts, creds>>

\* The connection ended without an answer, or within one.
Lost(c) ==
    LET k == call[c].conn IN
    /\ call[c].pc = "await" /\ hconn[k].done = 0 /\ ~hconn[k].open
    /\ \E e \in {"UnexpectedEof", "Canceled"} : ExchangeFails(c, e, hconn[k].cut)
    /\ UNCHANGED <<hpool, posts, creds>>

\* The deadline passes; the server may execute the request all the same, and its
\* answer finds the connection dropped.
TimesOut(c) ==
    LET k == call[c].conn IN
    /\ call[c].pc = "await" /\ hconn[k].done = 0 /\ hconn[k].open
    /\ ExchangeFails(c, "Timeout", FALSE)
    /\ posts' \in {posts, [posts EXCEPT ![c] = IF call[c].method = "POST" THEN @ + 1 ELSE @]}
    /\ UNCHANGED <<hpool, creds>>

-----------------------------------------------------------------------------
(* Around the exchange *)

\* Faulty variant: any method is retried.
ShouldRetryAny(c) == call[c].attempt < CeAttempts /\ call[c].err # "Protocol"

\* should_retry(), retry_non_idempotent off.
ShouldRetry(c) ==
    /\ call[c].attempt < CeAttempts
    /\ call[c].body # "stream"
    /\ Idempotent(call[c].method)
    /\ call[c].err \in {"Io", "UnexpectedEof", "Timeout", "Canceled"}

\* execute_with_retry()
Retry(c) ==
    /\ call[c].pc = "failed"
    /\ call' = IF ShouldRetry(c) THEN [call EXCEPT ![c].pc = "take", ![c].attempt = @ + 1, ![c].err = "none"]
                                 ELSE [call EXCEPT ![c] = [Idle EXCEPT !.pc = "returned"]]
    /\ UNCHANGED <<hconn, hpool, posts, creds>>

\* The method of the next hop.
NextMethod(method, status) ==
    IF status = 303 \/ (status \in {301, 302} /\ method = "POST") THEN "GET" ELSE method

\* Credentials are stripped when the authority or the scheme changes.
KeepsCredentials(from, to) == from = to

\* The request of the next hop, rebuilt from the caller's own: without a body.
Hop(c, m, to) ==
    [Idle EXCEPT !.pc = "take", !.method = m, !.origin = to, !.depth = call[c].depth + 1,
                 !.cred = IF KeepsCredentials(call[c].origin, to) THEN call[c].cred ELSE FALSE]

\* execute_with_redirects(): 301, 302, 303, 307, 308 with a Location, or the answer.  A 307
\* to a POST that had no body asks for another POST.
Redirect(c) ==
    /\ call[c].pc = "answered"
    /\ \/ Returns(c) /\ UNCHANGED posts
       \/ \E status \in {302, 303, 307}, to \in CeOrigins :
             LET m == NextMethod(call[c].method, status) IN
             IF call[c].depth >= CeRedirects \/ (m = call[c].method /\ call[c].had)
               THEN Returns(c) /\ UNCHANGED posts
               ELSE /\ call' = [call EXCEPT ![c] = Hop(c, m, to)]
                    /\ posts' = IF m = "POST" THEN [posts EXCEPT ![c] = 0] ELSE posts
    /\ UNCHANGED <<hconn, hpool, creds>>

-----------------------------------------------------------------------------
(* The server, one request after the other on each connection *)

ServerExecutes(k) ==
    /\ hconn[k].open /\ hconn[k].done < Len(hconn[k].asked)
    /\ LET c == hconn[k].asked[hconn[k].done + 1] IN
       /\ posts' = [posts EXCEPT ![c] = IF call[c].method = "POST" THEN @ + 1 ELSE @]
       /\ \/ hconn' = [hconn EXCEPT ![k].done = @ + 1]
          \/ \E cut \in BOOLEAN : hconn' = [hconn EXCEPT ![k].open = FALSE, ![k].cut = cut]
    /\ UNCHANGED <<call, hpool, creds>>

ServerCloses(k) ==
    /\ hconn[k].open
    /\ hconn' = [hconn EXCEPT ![k].open = FALSE]
    /\ UNCHANGED <<call, hpool, posts, creds>>

CallerStep(c) ==
    \/ Execute(c) \/ TakePooled(c) \/ ProbeConn(c) \/ OpenConn(c) \/ SendRequest(c)
    \/ Answered(c) \/ Lost(c) \/ TimesOut(c) \/ Retry(c) \/ Redirect(c)

CeNext ==
    \/ \E c \in CeCallers : CallerStep(c)
    \/ \E k \in CeConns : ServerExecutes(k) \/ ServerCloses(k)

CeSpec == CeInit /\ [][CeNext]_cevars

-----------------------------------------------------------------------------
(* A POST is executed at most once, however its connection dies, is probed,  *)
(* or is replaced, and whatever the retry policy and the redirects do; once  *)
(* more only where a redirect repeats a POST without a body.                 *)
PostOnce == \A c \in CeCallers : posts[c] <= 1

(* A caller gets the answer to its own request, also when an earlier one on  *)
(* the connection timed out; a connection at rest has nothing outstanding,   *)
(* is in the pool of its own origin, under the client's deadline, and held   *)
(* by nobody.                                                                *)
ExchangesApart ==
    /\ \A c \in CeCallers : call[c].answer \in {"none", c}
    /\ \A o \in CeOrigins : \A i \in 1..Len(hpool[o]) :
          LET k == hpool[o][i] IN
          /\ hconn[k].origin = o /\ ~hconn[k].own /\ hconn[k].asked = <<>>
          /\ \A c \in CeCallers : call[c].conn # k
          /\ \A p \in CeOrigins : \A j \in 1..Len(hpool[p]) : hpool[p][j] = k => <<p, j>> = <<o, i>>

(* Credentials written for one origin are seen by no other, after any number *)
(* of redirects.                                                             *)
CredentialsStay == \A c \in CeCallers : Cardinality(creds[c]) <= 1

(* Every execute() returns, over probes, stale retries, the retry policy and *)
(* redirects, which all start the exchange again.                            *)
CallsReturn == \A c \in CeCallers : call[c].pc \in {"idle", "returned"}

(* What execute() keeps however connections are reused, retried, redirected. *)
CallsKeptApart == PostOnce /\ ExchangesApart /\ CredentialsStay
=============================================================================
