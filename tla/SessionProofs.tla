--------------------------- MODULE SessionProofs ---------------------------
(***************************************************************************)
(* Proofs about Session, for any amount of data and whatever the two ends  *)
(* and the proxies may do: which connections graftcp-local holds at each   *)
(* point of HandleConn, and what the two goroutines have passed on by the  *)
(* time they stop.                                                         *)
(***************************************************************************)
EXTENDS Session, TLAPS

-----------------------------------------------------------------------------
(* The inductive invariants *)

Dialling == pc \in {"select", "dial", "direct", "request", "response"}

\* What HandleConn holds open, by where it is: nothing is added without a
\* place where it will be closed.
HeldInv ==
  /\ conf.mode \in Modes
  /\ pc \in {"select", "dial", "direct", "request", "response",
             "writeChan", "readChan", "close", "done"}
  /\ pc \in {"select", "dial", "direct"} => held = {"app"}
  /\ pc \in {"request", "response"} => held = {"app", "http"} /\ via = "http"
  /\ Relaying => held = {"app", via}
  /\ pc = "done" => held = {}
  /\ pc \notin {"select", "done"} => via \in Allowed

\* What the goroutines are doing, by where HandleConn is: each of the two sends
\* once, on the channel that HandleConn is yet to read.
PipeInv ==
  /\ pipe \in [Ends -> {"none", "copy", "ended", "send", "gone"}]
  /\ Dialling => \A s \in Ends : pipe[s] = "none"
  /\ pc = "writeChan" => \A s \in Ends : pipe[s] \in {"copy", "ended", "send"}
  /\ pc = "readChan" => pipe["dest"] = "gone" /\ pipe["app"] \in {"copy", "ended", "send"}
  /\ pc = "close" => \A s \in Ends : pipe[s] = "gone"
  /\ pc = "done" => \A s \in Ends : pipe[s] \in {"none", "gone"}

\* the bytes that went into httpDialer's bufio.Reader and were dropped with it
Swallowed == EarlyData /\ via = "http"

\* one end has finished, and all that it sent is with the other
SomeStreamDone == \E s \in Ends : fin[s] # "no" /\ got[s] = sent[s]

\* No chunk disappears between reading and writing while both ends are open, so
\* that a goroutine that stops by itself has passed on all there was.
DataInv ==
  /\ sent \in [Ends -> Nat] /\ pos \in [Ends -> Nat] /\ got \in [Ends -> Nat]
  /\ fin \in [Ends -> {"no", "shut", "closed"}]
  /\ Dialling => /\ \A s \in Ends : pos[s] = 0 /\ got[s] = 0
                 /\ expired = {}
                 /\ ~EarlyData => sent["dest"] = 0
  /\ Dialling \/ broken \/ Swallowed \/ \A s \in Ends : got[s] = pos[s]
  /\ expired # {} \/ (\E s \in Ends : pipe[s] \in {"ended", "send", "gone"})
       => broken \/ Swallowed \/ SomeStreamDone

SessionInv == HeldInv /\ PipeInv /\ DataInv

-----------------------------------------------------------------------------
(* Connections *)

\* What proxySelector returns is one of the connections the mode stands for.
LEMMA SelectorAllowed ==
  ASSUME conf.mode \in Modes
  PROVE  proxySelector \subseteq Allowed
<1>1. CASE conf.mode = "auto" BY <1>1 DEF proxySelector, Allowed
<1>2. CASE conf.mode = "random" BY <1>2 DEF proxySelector, Allowed, Proxies
<1>3. CASE conf.mode = "only_socks5" BY <1>3 DEF proxySelector, Allowed
<1>4. CASE conf.mode = "only_http_proxy" BY <1>4 DEF proxySelector, Allowed
<1>5. CASE conf.mode = "direct" BY <1>5 DEF proxySelector, Allowed
<1>. QED BY <1>1, <1>2, <1>3, <1>4, <1>5 DEF Modes

\* HandleConn starts with the application's connection and no other.
LEMMA HeldInit == Init => HeldInv
<1>. SUFFICES ASSUME Init PROVE HeldInv OBVIOUS
<1>1. conf.mode \in {SetSelectMode(m) : m \in Modes \cup {"other"}}
  BY DEF Init, NewLocal
<1>2. conf.mode \in Modes BY <1>1 DEF SetSelectMode, Modes
<1>. QED BY <1>2 DEF Init, HeldInv, Relaying

\* Every step of HandleConn keeps its account of the connections.
LEMMA HeldStep == HeldInv /\ [Next]_vars => HeldInv'
<1>. SUFFICES ASSUME HeldInv, [Next]_vars PROVE HeldInv' OBVIOUS
<1>k. ASSUME UNCHANGED <<conf, via, pc, held>> PROVE HeldInv'
  BY <1>k DEF HeldInv, Relaying, Allowed
<1>o. ASSUME conf' = conf, via \in Allowed, DialOk({"app", via}) PROVE HeldInv'
  BY <1>o DEF HeldInv, DialOk, Relaying, Allowed
<1>e. ASSUME conf' = conf, DialError({"app"}) PROVE HeldInv'
  <2>1. CASE conf.mode = "auto" /\ pc # "direct"
    BY <1>e, <2>1 DEF HeldInv, DialError, Relaying, Allowed
  <2>2. CASE ~(conf.mode = "auto" /\ pc # "direct")
    BY <1>e, <2>2 DEF HeldInv, DialError, Relaying, Allowed
  <2>. QED BY <2>1, <2>2
<1>1. CASE Select
  <2>1. ASSUME NEW d \in proxySelector, via' = d, pc' = "dial", UNCHANGED <<conf, held>>
        PROVE  HeldInv'
    <3>1. d \in Allowed BY SelectorAllowed DEF HeldInv
    <3>. QED BY <1>1, <2>1, <3>1 DEF Select, HeldInv, Relaying, Allowed
  <2>2. ASSUME pc' = "done", held' = held \ {"app"}, conf' = conf PROVE HeldInv'
    BY <1>1, <2>2 DEF Select, HeldInv, Relaying
  <2>. QED BY <1>1, <2>1, <2>2 DEF Select
<1>2. CASE DialPlain
  <2>1. held = {"app"} /\ held \cup {via} = {"app", via} BY <1>2 DEF DialPlain, HeldInv
  <2>2. via \in Allowed BY <1>2 DEF DialPlain, HeldInv
  <2>. QED BY <1>2, <2>1, <2>2, <1>o, <1>e DEF DialPlain
<1>3. CASE HttpConnect
  <2>1. held = {"app"} /\ held \cup {"http"} = {"app", "http"} /\ via \in Allowed
    BY <1>3 DEF HttpConnect, HeldInv
  <2>2. ASSUME held' = held \cup {"http"}, pc' = "request", UNCHANGED <<conf, via>>
        PROVE  HeldInv'
    BY <1>3, <2>1, <2>2 DEF HttpConnect, HeldInv, Relaying, Allowed
  <2>. QED BY <1>3, <2>1, <2>2, <1>e DEF HttpConnect
<1>4. CASE HttpRequest
  <2>1. held = {"app", "http"} /\ held \ {"http"} = {"app"} BY <1>4 DEF HttpRequest, HeldInv
  <2>2. ASSUME pc' = "response", UNCHANGED <<conf, via, held>> PROVE HeldInv'
    BY <1>4, <2>2 DEF HttpRequest, HeldInv, Relaying, Allowed
  <2>. QED BY <1>4, <2>1, <2>2, <1>e DEF HttpRequest
<1>5. CASE HttpResponse
  <2>1. /\ held = {"app", via} /\ held \ {"http"} = {"app"}
        /\ via \in Allowed
    BY <1>5 DEF HttpResponse, HeldInv
  <2>. QED BY <1>5, <2>1, <1>o, <1>e DEF HttpResponse
<1>6. ASSUME NEW s \in Ends, Receive(s) PROVE HeldInv'
  BY <1>6 DEF Receive, confVars, HeldInv, Relaying, Allowed
<1>7. CASE Close
  BY <1>7 DEF Close, confVars, HeldInv, Relaying
<1>8. ASSUME NEW s \in Ends, Pipe(s) PROVE HeldInv'
  BY <1>8, <1>k DEF Pipe, CopyChunk, CopyLost, CopyEnds, SetDeadlines, confVars
<1>9. CASE ProxyAnswers BY <1>9, <1>k DEF ProxyAnswers, confVars
<1>10. ASSUME NEW s \in Ends, Send(s) \/ \E how \in {"shut", "closed"} : Finish(s, how)
       PROVE  HeldInv'
  BY <1>10, <1>k DEF Send, Finish, confVars
<1>11. ASSUME NEW p, Stall(p)
       PROVE  HeldInv'
  BY <1>11, <1>k DEF Stall, confVars
<1>12. CASE Done \/ UNCHANGED vars BY <1>12, <1>k DEF Done, vars, confVars
<1>. QED
  BY <1>1, <1>2, <1>3, <1>4, <1>5, <1>6, <1>7, <1>8, <1>9, <1>10, <1>11, <1>12
  DEF Next, HandleConn

\* HandleConn's account of the connections is right at every moment.
LEMMA HeldCorrect == Spec => []HeldInv
BY HeldInit, HeldStep, PTL DEF Spec

\* ModeRespected for every configuration: no failure of a dialer makes
\* graftcp-local connect around the proxies its mode stands for.
THEOREM ModeHonoured == Spec => []ModeRespected
<1>1. HeldInv => ModeRespected
  BY DEF HeldInv, ModeRespected, Relaying
<1>. QED BY <1>1, HeldCorrect, PTL

-----------------------------------------------------------------------------
(* Goroutines *)

\* No goroutine is started before the dialler has returned.
LEMMA PipeInit == Init => PipeInv
BY DEF Init, PipeInv, Dialling, Ends

\* HandleConn and its two goroutines keep step.
LEMMA PipeStep == HeldInv /\ PipeInv /\ [Next]_vars => PipeInv'
<1>. SUFFICES ASSUME HeldInv, PipeInv, [Next]_vars PROVE PipeInv' OBVIOUS
<1>k. ASSUME UNCHANGED <<pc, pipe>> PROVE PipeInv'
  BY <1>k DEF PipeInv, Dialling, Ends
<1>d. ASSUME Dialling, Dialling' \/ pc' = "done", pipe' = pipe PROVE PipeInv'
  BY <1>d DEF PipeInv, Dialling
<1>o. ASSUME NEW h, DialOk(h) PROVE PipeInv'
  BY <1>o DEF PipeInv, DialOk, Dialling
<1>e. ASSUME Dialling, NEW h, DialError(h) PROVE PipeInv'
  BY <1>e, <1>d DEF DialError, Dialling
<1>1. CASE Select BY <1>1, <1>d DEF Select, pipeVars, Dialling
<1>2. CASE DialPlain
  <2>1. Dialling BY <1>2 DEF DialPlain, Dialling
  <2>. QED BY <1>2, <2>1, <1>o, <1>e DEF DialPlain
<1>3. CASE HttpConnect
  <2>1. Dialling BY <1>3 DEF HttpConnect, Dialling
  <2>2. ASSUME pc' = "request", UNCHANGED pipeVars PROVE PipeInv'
    BY <2>1, <2>2, <1>d DEF Dialling, pipeVars
  <2>. QED BY <1>3, <2>1, <2>2, <1>e DEF HttpConnect
<1>4. CASE HttpRequest
  <2>1. Dialling BY <1>4 DEF HttpRequest, Dialling
  <2>2. ASSUME pc' = "response", UNCHANGED pipeVars PROVE PipeInv'
    BY <2>1, <2>2, <1>d DEF Dialling, pipeVars
  <2>. QED BY <1>4, <2>1, <2>2, <1>e DEF HttpRequest
<1>5. CASE HttpResponse
  <2>1. Dialling BY <1>5 DEF HttpResponse, Dialling
  <2>. QED BY <1>5, <2>1, <1>o, <1>e DEF HttpResponse
<1>6. ASSUME NEW s \in Ends, Receive(s) PROVE PipeInv'
  <2>1. CASE s = "dest" BY <1>6, <2>1 DEF Receive, PipeInv, Dialling, Ends
  <2>2. CASE s = "app" BY <1>6, <2>2 DEF Receive, PipeInv, Dialling, Ends
  <2>. QED BY <2>1, <2>2 DEF Ends
<1>7. CASE Close BY <1>7 DEF Close, pipeVars, PipeInv, Dialling
<1>8. ASSUME NEW s \in Ends, Pipe(s) PROVE PipeInv'
  <2>1. ASSUME pc' = pc, pipe[s] \in {"copy", "ended"}, NEW now \in {"copy", "ended", "send"},
               pipe' = [pipe EXCEPT ![s] = now]
        PROVE  PipeInv'
    BY <2>1 DEF PipeInv, Dialling, Ends
  <2>2. CASE CopyChunk(s) BY <2>2, <1>k DEF CopyChunk
  <2>3. CASE CopyLost(s) BY <2>3, <2>1 DEF CopyLost
  <2>4. CASE CopyEnds(s) BY <2>4, <2>1 DEF CopyEnds
  <2>5. CASE SetDeadlines(s) BY <2>5, <2>1 DEF SetDeadlines
  <2>. QED BY <1>8, <2>2, <2>3, <2>4, <2>5 DEF Pipe
<1>9. CASE ProxyAnswers BY <1>9, <1>k DEF ProxyAnswers, pipeVars
<1>10. ASSUME NEW s \in Ends, Send(s) \/ \E how \in {"shut", "closed"} : Finish(s, how)
       PROVE  PipeInv'
  BY <1>10, <1>k DEF Send, Finish, pipeVars
<1>11. ASSUME NEW p, Stall(p)
       PROVE  PipeInv'
  BY <1>11, <1>k DEF Stall, pipeVars
<1>12. CASE Done \/ UNCHANGED vars BY <1>12, <1>k DEF Done, vars, pipeVars
<1>. QED
  BY <1>1, <1>2, <1>3, <1>4, <1>5, <1>6, <1>7, <1>8, <1>9, <1>10, <1>11, <1>12
  DEF Next, HandleConn

\* The goroutines and HandleConn agree at every moment.
LEMMA PipeCorrect == Spec => []PipeInv
BY PipeInit, PipeStep, HeldCorrect, PTL DEF Spec

\* NoLeak for every configuration: on no path, the failures of each dialer and
\* the fallback included, does HandleConn return with a connection still open or
\* with a goroutine that waits for a reader of its channel.
THEOREM NothingLeaks == Spec => []NoLeak
<1>1. HeldInv /\ PipeInv => NoLeak BY DEF HeldInv, PipeInv, NoLeak
<1>. QED BY <1>1, HeldCorrect, PipeCorrect, PTL

-----------------------------------------------------------------------------
(* Data *)

\* Nothing has been read or written when HandleConn starts.
LEMMA DataInit == Init => DataInv
BY DEF Init, DataInv, Dialling, Ends

\* No step loses a chunk unnoticed, and none stops a goroutine too early.
LEMMA DataStep == HeldInv /\ PipeInv /\ DataInv /\ [Next]_vars => DataInv'
<1>. SUFFICES ASSUME HeldInv, PipeInv, DataInv, [Next]_vars PROVE DataInv' OBVIOUS
<1>k. ASSUME UNCHANGED <<via, pc, sent, fin, pipeVars>> PROVE DataInv'
  BY <1>k DEF DataInv, Dialling, Swallowed, SomeStreamDone, pipeVars
<1>d. ASSUME Dialling, Dialling' \/ pc' = "done", UNCHANGED <<endVars, pipeVars>>
      PROVE  DataInv'
  <2>1. expired' = {} /\ \A s \in Ends : pipe'[s] = "none"
    BY <1>d DEF DataInv, PipeInv, pipeVars
  <2>2. \A s \in Ends : pos'[s] = 0 /\ got'[s] = 0 BY <1>d DEF DataInv, pipeVars
  <2>. QED BY <1>d, <2>1, <2>2 DEF DataInv, endVars, pipeVars
<1>o. ASSUME Dialling, NEW h, DialOk(h), UNCHANGED endVars,
             pos' \in [Ends -> Nat], Swallowed \/ \A s \in Ends : pos'[s] = 0
      PROVE  DataInv'
  <2>1. ~Dialling' /\ expired' = {} /\ \A s \in Ends : pipe'[s] = "copy"
    BY <1>o DEF DialOk, DataInv, Dialling
  <2>2. Swallowed' \/ \A s \in Ends : got'[s] = pos'[s]
    BY <1>o DEF DialOk, DataInv, Swallowed
  <2>. QED BY <1>o, <2>1, <2>2 DEF DialOk, DataInv, endVars
<1>e. ASSUME Dialling, NEW h, DialError(h), UNCHANGED endVars PROVE DataInv'
  BY <1>e, <1>d DEF DialError, Dialling, pipeVars
<1>1. CASE Select BY <1>1, <1>d DEF Select, Dialling
<1>2. CASE DialPlain
  <2>1. Dialling BY <1>2 DEF DialPlain, Dialling
  <2>2. pos \in [Ends -> Nat] /\ \A s \in Ends : pos[s] = 0 BY <2>1 DEF DataInv
  <2>. QED BY <1>2, <2>1, <2>2, <1>o, <1>e DEF DialPlain
<1>3. CASE HttpConnect
  <2>1. Dialling BY <1>3 DEF HttpConnect, Dialling
  <2>2. ASSUME pc' = "request", UNCHANGED <<endVars, pipeVars>> PROVE DataInv'
    BY <2>1, <2>2, <1>d DEF Dialling
  <2>. QED BY <1>3, <2>1, <2>2, <1>e DEF HttpConnect
<1>4. CASE HttpRequest
  <2>1. Dialling BY <1>4 DEF HttpRequest, Dialling
  <2>2. ASSUME pc' = "response", UNCHANGED <<endVars, pipeVars>> PROVE DataInv'
    BY <2>1, <2>2, <1>d DEF Dialling
  <2>. QED BY <1>4, <2>1, <2>2, <1>e DEF HttpRequest
<1>5. CASE HttpResponse
  <2>1. Dialling /\ via = "http" BY <1>5 DEF HttpResponse, Dialling, HeldInv
  <2>2. ASSUME NEW n \in 0 .. sent["dest"], pos' = [pos EXCEPT !["dest"] = n]
        PROVE  pos' \in [Ends -> Nat] /\ (Swallowed \/ \A s \in Ends : pos'[s] = 0)
    BY <2>1, <2>2 DEF DataInv, Swallowed, Ends
  <2>. QED BY <1>5, <2>1, <2>2, <1>o, <1>e DEF HttpResponse
<1>6. ASSUME NEW s \in Ends, Receive(s) PROVE DataInv'
  <2>1. ~Dialling /\ ~Dialling' BY <1>6 DEF Receive, Dialling, Ends
  <2>2. (\E r \in Ends : pipe'[r] \in {"ended", "send", "gone"})
          => \E r \in Ends : pipe[r] \in {"ended", "send", "gone"}
    BY <1>6 DEF Receive, PipeInv
  <2>. QED
    BY <1>6, <2>1, <2>2
    DEF Receive, DataInv, Swallowed, SomeStreamDone, confVars, endVars
<1>7. CASE Close
  <2>1. ~Dialling /\ ~Dialling' BY <1>7 DEF Close, Dialling
  <2>. QED
    BY <1>7, <2>1 DEF Close, DataInv, Swallowed, SomeStreamDone, confVars, endVars, pipeVars
<1>8. ASSUME NEW s \in Ends, Pipe(s) PROVE DataInv'
  <2>1. ~Dialling /\ ~Dialling'
    BY <1>8 DEF Pipe, CopyChunk, CopyLost, CopyEnds, SetDeadlines, PipeInv, Dialling
  <2>2. CASE CopyChunk(s)
    <3>1. /\ pos' \in [Ends -> Nat] /\ got' \in [Ends -> Nat]
          /\ (\A r \in Ends : got[r] = pos[r]) => \A r \in Ends : got'[r] = pos'[r]
      BY <2>2 DEF CopyChunk, DataInv
    <3>2. (\A r \in Ends : got[r] = pos[r]) /\ SomeStreamDone => SomeStreamDone'
      BY <2>2 DEF CopyChunk, DataInv, SomeStreamDone, endVars
    <3>. QED
      BY <2>1, <2>2, <3>1, <3>2 DEF CopyChunk, DataInv, Swallowed, confVars, endVars
  <2>3. CASE CopyLost(s)
    <3>1. pos' \in [Ends -> Nat] /\ broken' BY <2>3 DEF CopyLost, DataInv
    <3>. QED BY <2>1, <2>3, <3>1 DEF CopyLost, DataInv, endVars
  <2>4. CASE CopyEnds(s)
    <3>1. broken \/ Swallowed \/ SomeStreamDone
      BY <2>1, <2>4 DEF CopyEnds, DataInv, SomeStreamDone
    <3>. QED
      BY <2>1, <2>4, <3>1
      DEF CopyEnds, DataInv, Swallowed, SomeStreamDone, confVars, endVars
  <2>5. CASE SetDeadlines(s)
    <3>1. broken \/ Swallowed \/ SomeStreamDone
      BY <2>1, <2>5 DEF SetDeadlines, DataInv
    <3>. QED
      BY <2>1, <2>5, <3>1
      DEF SetDeadlines, DataInv, Swallowed, SomeStreamDone, confVars, endVars
  <2>. QED BY <1>8, <2>2, <2>3, <2>4, <2>5 DEF Pipe
<1>9. CASE ProxyAnswers BY <1>9, <1>k DEF ProxyAnswers, confVars, endVars
<1>10. ASSUME NEW s \in Ends, Send(s) PROVE DataInv'
  <2>1. sent' \in [Ends -> Nat] BY <1>10 DEF Send, DataInv
  <2>2. SomeStreamDone => SomeStreamDone'
    BY <1>10 DEF Send, DataInv, SomeStreamDone, pipeVars
  <2>3. Dialling /\ ~EarlyData => sent'["dest"] = 0
    BY <1>10 DEF Send, Connected, Relaying, Dialling, DataInv, Ends
  <2>. QED
    BY <1>10, <2>1, <2>2, <2>3 DEF Send, DataInv, Dialling, Swallowed, confVars, pipeVars
<1>11. ASSUME NEW s \in Ends, NEW how \in {"shut", "closed"}, Finish(s, how) PROVE DataInv'
  <2>1. fin' \in [Ends -> {"no", "shut", "closed"}] BY <1>11 DEF Finish, DataInv
  <2>2. SomeStreamDone => SomeStreamDone'
    BY <1>11 DEF Finish, DataInv, SomeStreamDone, pipeVars
  <2>. QED
    BY <1>11, <2>1, <2>2 DEF Finish, DataInv, Dialling, Swallowed, confVars, pipeVars
<1>12. ASSUME NEW p, Stall(p) PROVE DataInv'
  BY <1>12, <1>k DEF Stall, confVars, pipeVars
<1>13. CASE Done \/ UNCHANGED vars BY <1>13, <1>k DEF Done, vars, confVars, endVars
<1>. QED
  BY <1>1, <1>2, <1>3, <1>4, <1>5, <1>6, <1>7, <1>8, <1>9, <1>10, <1>11, <1>12, <1>13
  DEF Next, HandleConn

\* OneStreamComplete for any amount of data: a session ends early only after one
\* end's stream has been passed on to its last chunk, unless an end was closed
\* under the writer, or a destination spoke first through an HTTP proxy and the
\* dialler's bufio.Reader took what it said.
THEOREM StreamComplete == Spec => [](Swallowed \/ OneStreamComplete)
<1>1. Spec => []DataInv
  BY DataInit, DataStep, HeldCorrect, PipeCorrect, PTL DEF Spec
<1>2. DataInv => Swallowed \/ OneStreamComplete
  BY DEF DataInv, OneStreamComplete, SomeStreamDone
<1>. QED BY <1>1, <1>2, PTL
=============================================================================
