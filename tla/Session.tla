------------------------------ MODULE Session ------------------------------
(***************************************************************************)
(* graftcp-local: what HandleConn does with a connection once it knows the *)
(* destination (local.go, http_proxy.go).  It selects a dialer, dials, and *)
(* lets two goroutines copy bytes between the application and the          *)
(* destination until one of them has nothing more to say.                  *)
(*                                                                         *)
(* A stream is a number of chunks; what matters of a connection is whether *)
(* graftcp-local holds it open and what is still to be read from it.       *)
(***************************************************************************)
EXTENDS Integers

CONSTANTS
  MaxData,      \* BOUND: chunks each end sends
  HalfClose,    \* may an end shut down its sending side and go on receiving?
  EarlyData     \* may the destination speak before it has been spoken to?

VARIABLES
  conf,         \* mode and what the proxy addresses resolve to
  pc,           \* where HandleConn is
  via,          \* the dialer selected
  tried,        \* history: dialers used
  held,         \* connections graftcp-local holds open
  answer,       \* what the HTTP proxy has answered to CONNECT
  sent,         \* chunks each end has sent
  pos,          \* chunks graftcp-local has read from each end
  got,          \* chunks of each end that have been written to the other
  fin,          \* has each end shut down or closed its connection?
  stalled,      \* ends that no longer read and proxies that no longer answer
  pipe,         \* the goroutine that reads from each end
  expired,      \* connections whose deadline has passed
  broken        \* history: something was written to an end that was closed

confVars == <<conf, via, tried>>
endVars == <<sent, fin, stalled>>
pipeVars == <<pos, got, pipe, expired, broken>>
vars == <<confVars, pc, held, answer, endVars, pipeVars>>

ASSUME SessionAssumption ==
  /\ MaxData \in Nat
  /\ HalfClose \in BOOLEAN /\ EarlyData \in BOOLEAN

Ends == {"app", "dest"}
Other(s) == IF s = "app" THEN "dest" ELSE "app"
Proxies == {"socks5", "http"}

-----------------------------------------------------------------------------
(* Configuration *)

Modes == {"auto", "random", "only_http_proxy", "only_socks5", "direct"}

\* a mode of any other name leaves selectMode at its zero value
SetSelectMode(mode) == IF mode \in Modes THEN mode ELSE "auto"

\* NewLocal: an address of "" resolves, to :0, where nobody listens; it ends the
\* program when neither address resolves
Resolutions == {"listening", "empty", "unresolved"}
NewLocal ==
  {c \in [mode : {SetSelectMode(m) : m \in Modes \cup {"other"}},
          socks5 : Resolutions, http : Resolutions] :
      c.socks5 # "unresolved" \/ c.http # "unresolved"}

\* the dialers that are not nil
Dialers ==
  {"direct"} \cup {d \in Proxies : conf[d] # "unresolved"}

\* what it may return; {} for nil
proxySelector ==
  CASE conf.mode = "auto" -> IF "socks5" \in Dialers THEN {"socks5"}
                             ELSE IF "http" \in Dialers THEN {"http"} ELSE {"direct"}
    [] conf.mode = "random" -> Dialers \cap Proxies
    [] conf.mode = "only_socks5" -> Dialers \cap {"socks5"}
    [] conf.mode = "only_http_proxy" -> Dialers \cap {"http"}
    [] conf.mode = "direct" -> {"direct"}

\* getPidByAddr has found the destination
Init ==
  /\ conf \in NewLocal
  /\ pc = "select" /\ via = "none" /\ tried = {}
  /\ held = {"app"}
  /\ answer = "none"
  /\ sent = [s \in Ends |-> 0] /\ fin = [s \in Ends |-> "no"]
  /\ stalled = {}
  /\ pos = [s \in Ends |-> 0] /\ got = [s \in Ends |-> 0]
  /\ pipe = [s \in Ends |-> "none"]
  /\ expired = {} /\ broken = FALSE

-----------------------------------------------------------------------------
(* Dialling *)

Select ==
  /\ pc = "select"
  /\ \/ \E d \in proxySelector :
          via' = d /\ tried' = {d} /\ pc' = "dial" /\ UNCHANGED held
     \/ /\ proxySelector = {}
        /\ pc' = "done" /\ held' = held \ {"app"}
        /\ UNCHANGED <<via, tried>>
  /\ UNCHANGED <<conf, answer, endVars, pipeVars>>

\* mutant: the deadlines are set when the goroutines start
DialOk_Deadline(h) ==
  /\ held' = h /\ pc' = "writeChan"
  /\ pipe' = [s \in Ends |-> "copy"]
  /\ expired' = Ends
  /\ UNCHANGED <<via, tried, got, broken>>

\* dialled, h being open now: the goroutines start and HandleConn waits
DialOk(h) ==
  /\ held' = h /\ pc' = "writeChan"
  /\ pipe' = [s \in Ends |-> "copy"]
  /\ UNCHANGED <<via, tried, got, expired, broken>>

\* mutant: every mode falls back on a direct connection
DialError_EveryMode(h) ==
  /\ IF pc # "direct"
     THEN held' = h /\ via' = "direct" /\ tried' = tried \cup {"direct"} /\ pc' = "direct"
     ELSE held' = h \ {"app"} /\ pc' = "done" /\ UNCHANGED <<via, tried>>
  /\ UNCHANGED <<pos, got, pipe, expired, broken>>

\* not dialled, h being open still: auto mode tries once without a proxy
DialError(h) ==
  /\ IF conf.mode = "auto" /\ pc # "direct"
     THEN held' = h /\ via' = "direct" /\ tried' = tried \cup {"direct"} /\ pc' = "direct"
     ELSE held' = h \ {"app"} /\ pc' = "done" /\ UNCHANGED <<via, tried>>
  /\ UNCHANGED <<pos, got, pipe, expired, broken>>

\* may connect(2) to the dialer's first hop succeed?
Listening ==
  via \in {"direct"} \cup {d \in Proxies : conf[d] = "listening"}

\* net.Dial and the vendored SOCKS5 dialer, which leaves nothing open on an error
\* and waits without a timeout for the proxy's replies
DialPlain ==
  /\ pc = "direct" \/ (pc = "dial" /\ via # "http")
  /\ \/ Listening /\ DialOk(held \cup {via}) /\ UNCHANGED pos
     \/ DialError(held)
  /\ UNCHANGED <<conf, answer, endVars>>

\* httpDialer.Dial: connect to the proxy
HttpConnect ==
  /\ pc = "dial" /\ via = "http"
  /\ \/ /\ Listening /\ held' = held \cup {"http"} /\ pc' = "request"
        /\ UNCHANGED <<via, tried, pipeVars>>
     \/ DialError(held)
  /\ UNCHANGED <<conf, answer, endVars>>

\* write the request; the address, numbers and dots, always parses
HttpRequest ==
  /\ pc = "request"
  /\ \/ pc' = "response" /\ UNCHANGED <<via, tried, held, pipeVars>>
     \/ DialError(held \ {"http"})
  /\ UNCHANGED <<conf, answer, endVars>>

\* mutant: the connection is kept when the proxy refuses
HttpResponse_KeepOpen ==
  /\ pc = "response" /\ answer # "none"
  /\ IF answer = "200"
     THEN /\ DialOk(held)
          /\ pos' = [pos EXCEPT !["dest"] = sent["dest"]]
     ELSE DialError(IF answer = "denied" THEN held ELSE held \ {"http"})
  /\ UNCHANGED <<conf, answer, endVars>>

\* read the answer, through a bufio.Reader that is dropped afterwards together
\* with what it has read of the destination's first chunks
HttpResponse ==
  /\ pc = "response" /\ answer # "none"
  /\ IF answer = "200"
     THEN /\ DialOk(held)
          /\ \E n \in 0 .. sent["dest"] : pos' = [pos EXCEPT !["dest"] = n]
     ELSE DialError(held \ {"http"})
  /\ UNCHANGED <<conf, answer, endVars>>

-----------------------------------------------------------------------------
(* Copying: the goroutine pipe(Other(s), s) *)

\* io.Copy takes a chunk from one connection to the other; its Write returns when
\* the other end has room for it, and no deadline is set before one copy has ended
CopyChunk(s) ==
  /\ pipe[s] = "copy" /\ pos[s] < sent[s]
  /\ expired = {} /\ fin[Other(s)] # "closed"
  /\ pos' = [pos EXCEPT ![s] = @ + 1]
  /\ got' = [got EXCEPT ![s] = @ + 1]
  /\ UNCHANGED <<confVars, pc, held, answer, endVars, pipe, expired, broken>>

\* the chunk is written to an end that has closed; write(2) may not notice at once
CopyLost(s) ==
  /\ pipe[s] = "copy" /\ pos[s] < sent[s]
  /\ expired = {} /\ fin[Other(s)] = "closed"
  /\ pos' = [pos EXCEPT ![s] = @ + 1]
  /\ broken' = TRUE
  /\ \E now \in {"copy", "ended"} : pipe' = [pipe EXCEPT ![s] = now]
  /\ UNCHANGED <<confVars, pc, held, answer, endVars, got, expired>>

\* io.Copy returns at the end of the stream, or at once after a deadline
CopyEnds(s) ==
  /\ pipe[s] = "copy"
  /\ expired # {} \/ (fin[s] # "no" /\ pos[s] = sent[s])
  /\ pipe' = [pipe EXCEPT ![s] = "ended"]
  /\ UNCHANGED <<confVars, pc, held, answer, endVars, pos, got, expired, broken>>

\* mutant: the other direction is left to end by itself
SetDeadlines_None(s) ==
  /\ pipe[s] = "ended"
  /\ pipe' = [pipe EXCEPT ![s] = "send"]
  /\ UNCHANGED <<confVars, pc, held, answer, endVars, pos, got, expired, broken>>

\* both connections expire, so that the other direction ends too
SetDeadlines(s) ==
  /\ pipe[s] = "ended"
  /\ pipe' = [pipe EXCEPT ![s] = "send"]
  /\ expired' = Ends
  /\ UNCHANGED <<confVars, pc, held, answer, endVars, pos, got, broken>>

Pipe(s) == CopyChunk(s) \/ CopyLost(s) \/ CopyEnds(s) \/ SetDeadlines(s)

\* an unbuffered channel: HandleConn takes what s sends where it waits for it
Receive(s) ==
  /\ pc = (IF s = "dest" THEN "writeChan" ELSE "readChan") /\ pipe[s] = "send"
  /\ pipe' = [pipe EXCEPT ![s] = "gone"]
  /\ pc' = IF s = "dest" THEN "readChan" ELSE "close"
  /\ UNCHANGED <<confVars, held, answer, endVars, pos, got, expired, broken>>

Close ==
  /\ pc = "close"
  /\ held' = held \ {"app", via} /\ pc' = "done"
  /\ UNCHANGED <<confVars, answer, endVars, pipeVars>>

HandleConn ==
  \/ Select \/ DialPlain \/ HttpConnect \/ HttpRequest \/ HttpResponse
  \/ (\E s \in Ends : Receive(s)) \/ Close

-----------------------------------------------------------------------------
(* The two ends and the HTTP proxy *)

Relaying == pc \in {"writeChan", "readChan", "close"}

\* "closed" stands for an answer that is cut short, too
ProxyAnswers ==
  /\ pc = "response" /\ answer = "none"
  /\ answer' \in {"200", "denied", "closed"}
  /\ UNCHANGED <<confVars, pc, held, endVars, pipeVars>>

\* is there a connection over which s can send?
Connected(s) ==
  \/ s = "app" /\ pc # "done"
  \/ s = "dest" /\ (Relaying \/ (EarlyData /\ pc = "response" /\ answer = "200"))

Send(s) ==
  /\ Connected(s) /\ fin[s] = "no" /\ sent[s] < MaxData
  /\ sent' = [sent EXCEPT ![s] = @ + 1]
  /\ UNCHANGED <<confVars, pc, held, answer, fin, stalled, pipeVars>>

\* shutdown(2) or close(2)
Finish(s, how) ==
  /\ Connected(s)
  /\ \/ how = "shut" /\ HalfClose /\ fin[s] = "no"
     \/ how = "closed" /\ fin[s] # "closed"
  /\ fin' = [fin EXCEPT ![s] = how]
  /\ UNCHANGED <<confVars, pc, held, answer, sent, stalled, pipeVars>>

\* from now on nothing need come of p: an end stops reading, or the proxy that is
\* being dialled stops answering
Stall(p) ==
  /\ p \notin stalled
  /\ \/ p \in Ends /\ Relaying /\ fin[p] # "closed"
     \/ p = via /\ Listening /\ pc \in {"dial", "response"} /\ answer = "none"
  /\ stalled' = stalled \cup {p}
  /\ UNCHANGED <<confVars, pc, held, answer, sent, fin, pipeVars>>

Done == pc = "done" /\ UNCHANGED vars

Next ==
  \/ HandleConn \/ \E s \in Ends : Pipe(s)
  \/ ProxyAnswers
  \/ \E s \in Ends : Send(s) \/ \E how \in {"shut", "closed"} : Finish(s, how)
  \/ \E p \in Ends \cup Proxies : Stall(p)
  \/ Done

(* Fairness: goroutines run, and connect(2) ends by the kernel's timeout.  A *)
(* read of a proxy's answer and a write to an end return as long as that one *)
(* has not stalled; nothing else is assumed of the proxies and the two ends. *)

\* HandleConn waits for a proxy that does not answer
DialBlocks ==
  /\ via \in stalled
  /\ \/ pc = "dial" /\ via = "socks5"
     \/ pc = "response" /\ answer = "none"

\* io.Copy waits for room at an end that does not read
WriteBlocks(s) ==
  /\ pipe[s] = "copy" /\ pos[s] < sent[s] /\ expired = {}
  /\ Other(s) \in stalled /\ fin[Other(s)] # "closed"

Fairness ==
  /\ WF_vars(~DialBlocks /\ HandleConn)
  /\ WF_vars(~DialBlocks /\ ProxyAnswers)
  /\ \A s \in Ends : WF_vars(~WriteBlocks(s) /\ Pipe(s))

Spec == Init /\ [][Next]_vars /\ Fairness

-----------------------------------------------------------------------------
(* Properties *)

\* the connections to the outside that each mode stands for
Allowed ==
  CASE conf.mode = "auto" -> {"socks5", "http", "direct"}
    [] conf.mode = "random" -> {"socks5", "http"}
    [] conf.mode = "only_socks5" -> {"socks5"}
    [] conf.mode = "only_http_proxy" -> {"http"}
    [] conf.mode = "direct" -> {"direct"}

\* No connection is made around the proxies the mode stands for, whatever goes
\* wrong while dialling (proxySelector, the fallback of HandleConn).
ModeRespected == held \ {"app"} \subseteq Allowed

\* When HandleConn has returned, on whichever path, no connection is left open
\* and no goroutine is left waiting to send on a channel.
NoLeak == pc = "done" => held = {} /\ \A s \in Ends : pipe[s] \in {"none", "gone"}

\* A session ends only after everything that one of the ends sent before it
\* finished has been passed on, unless something had to be written to an end
\* that was already closed (pipe).
OneStreamComplete ==
  Relaying /\ expired # {} /\ ~broken
    => \E s \in Ends : fin[s] # "no" /\ got[s] = sent[s]

\* Auto mode goes without a proxy only after trying all that are configured
\* (AutoSelectMode: "select socks5 if socks5 is reachable, else HTTP proxy").
AutoOrder ==
  conf.mode = "auto" /\ "direct" \in tried => Dialers \subseteq tried

\* When no end has closed its connection, a session that is over has passed
\* everything on in both directions, as without graftcp.
BothStreamsComplete ==
  Relaying /\ expired # {} /\ (\A s \in Ends : fin[s] # "closed")
    => \A s \in Ends : fin[s] = "shut" /\ got[s] = sent[s]

\* Once one end has finished, HandleConn returns, unless it waits for a proxy that
\* does not answer or for room to write what that end has sent: no goroutine is
\* left reading from an end that stays silent, nor writing to one that has stopped
\* reading, when the other goroutine has ended (pipe's SetDeadline).
SessionEnds ==
  \A s \in Ends : fin[s] # "no" ~> pc = "done" \/ DialBlocks \/ WriteBlocks(s)

=============================================================================
