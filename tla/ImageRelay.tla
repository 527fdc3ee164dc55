----------------------------- MODULE ImageRelay -----------------------------
(***************************************************************************)
(* The image relay of one deployment (core/relay, core/api/grpc/relay.go,  *)
(* agent/relay): the builder's push and the target's pull meet in a        *)
(* session of the plane and move the image through a synchronous pipe.     *)
(*                                                                         *)
(* The table of sessions is keyed by the deployment, and so is Drop.  A    *)
(* call whose agent is gone can outlive it in the plane: the agent's next  *)
(* attempt runs beside it, and the late call's Drop falls on whatever      *)
(* session the deployment has by then.                                     *)
(***************************************************************************)
EXTENDS Naturals, FiniteSets

CONSTANTS
  maxDeliveries,   \* attempts an agent makes at one work item
  Size,            \* chunks of the image
  MaxLoss          \* bound: calls whose agent or connection is lost

ASSUME RelayAssumption == maxDeliveries \in Nat \ {0} /\ Size \in Nat /\ MaxLoss \in Nat

Sides == {"push", "pull"}
Calls == Sides \X (1..maxDeliveries)
Session == 1..(2 * maxDeliveries)
NoSession == 0
Peer(side) == IF side = "push" THEN "pull" ELSE "push"

VARIABLES
  table,         \* Relay.sessions[deployment], NoSession when there is none
  made,          \* sessions made so far; they are numbered in that order
  arrived,       \* the sides of each session whose channel is closed
  pipe,          \* each session's write end: "open", or closed with "eof" or "error"
  call,          \* the plane's handler of each call: where it is
  at,            \* ... its session
  moved,         \* ... and the chunks it has moved
  lost,          \* calls whose agent is gone, or never hears the answer
  image,         \* the target's daemon has the image
  distributing,  \* the deployment's status, as the handlers read it
  losses

sessionVars == <<table, made, arrived, pipe>>
callVars == <<call, at, moved>>
relayVars == <<sessionVars, callVars, lost, image, distributing, losses>>

RelayTypeOK ==
  /\ table \in 0..made /\ made \in 0..(2 * maxDeliveries)
  /\ arrived \in [Session -> SUBSET Sides]
  /\ pipe \in [Session -> {"open", "eof", "error"}]
  /\ call \in [Calls -> {"none", "got", "waiting", "moving", "ok", "failed"}]
  /\ at \in [Calls -> 0..made] /\ moved \in [Calls -> 0..Size]
  /\ lost \subseteq Calls /\ image \in BOOLEAN /\ distributing \in BOOLEAN

RelayInit ==
  /\ table = NoSession /\ made = 0
  /\ arrived = [s \in Session |-> {}] /\ pipe = [s \in Session |-> "open"]
  /\ call = [c \in Calls |-> "none"] /\ at = [c \in Calls |-> NoSession]
  /\ moved = [c \in Calls |-> 0]
  /\ lost = {} /\ image = FALSE /\ distributing = TRUE
  /\ losses = 0

\* The agent's view: a worker starts its next attempt once the one before has
\* failed, or was lost; an acknowledged push is not delivered again.
Redelivered(side, n) ==
  n > 1 => \/ call[<<side, n - 1>>] = "failed"
           \/ <<side, n - 1>> \in lost
           \/ side = "pull" /\ call[<<side, n - 1>>] = "ok"

\* Mutant: the session is forgotten and its pipe left open.
Drop_LeavesOpen(cause) ==
  /\ table' = NoSession
  /\ UNCHANGED <<made, arrived, pipe>>

\* Drop: forget the deployment's session and close its write end; a pipe that
\* is closed keeps its first cause.
Drop(cause) ==
  /\ table' = NoSession
  /\ pipe' = IF table # NoSession /\ pipe[table] = "open"
             THEN [pipe EXCEPT ![table] = cause] ELSE pipe
  /\ UNCHANGED <<made, arrived>>

\* The handler returns.
End(c, outcome) == call' = [call EXCEPT ![c] = outcome] /\ UNCHANGED <<at, moved>>

-----------------------------------------------------------------------------
(* PushImage, PullImage and attach.                                        *)

\* The call arrives; its session is the deployment's, or a fresh one (get).
\* Once the deployment is not distributing a push is answered OK at once and
\* a pull is refused.
Arrive(side, n) ==
  LET c == <<side, n>> IN
  /\ call[c] = "none" /\ Redelivered(side, n)
  /\ side = "pull" => ~image
  /\ \/ /\ ~distributing
        /\ End(c, IF side = "push" THEN "ok" ELSE "failed") /\ UNCHANGED sessionVars
     \/ /\ distributing
        /\ call' = [call EXCEPT ![c] = "got"]
        /\ \/ table # NoSession /\ at' = [at EXCEPT ![c] = table] /\ UNCHANGED <<table, made>>
           \/ /\ table = NoSession
              /\ made' = made + 1 /\ table' = made' /\ at' = [at EXCEPT ![c] = made']
        /\ UNCHANGED <<moved, arrived, pipe>>
  /\ UNCHANGED <<lost, image, distributing, losses>>

\* attach: claim this side of the session, unless it is claimed already.
Claim(side, n) ==
  LET c == <<side, n>> IN
  /\ call[c] = "got"
  /\ \/ /\ side \in arrived[at[c]] /\ End(c, "failed") /\ UNCHANGED arrived
     \/ /\ side \notin arrived[at[c]]
        /\ arrived' = [arrived EXCEPT ![at[c]] = @ \cup {side}]
        /\ call' = [call EXCEPT ![c] = "waiting"] /\ UNCHANGED <<at, moved>>
  /\ UNCHANGED <<table, made, pipe, lost, image, distributing, losses>>

\* attach: the peer is there.
Meet(side, n) ==
  LET c == <<side, n>> IN
  /\ call[c] = "waiting" /\ Peer(side) \in arrived[at[c]]
  /\ call' = [call EXCEPT ![c] = "moving"]
  /\ UNCHANGED <<sessionVars, at, moved, lost, image, distributing, losses>>

\* Mutant: who gives up leaves its session behind.
GiveUpWaiting_NoDrop(side, n) ==
  LET c == <<side, n>> IN
  /\ call[c] = "waiting"
  /\ End(c, "failed")
  /\ UNCHANGED <<sessionVars, lost, image, distributing, losses>>

\* attach: the rendezvous window ends, or the agent's context does; the select
\* may take this branch although the peer has just arrived.
GiveUpWaiting(side, n) ==
  LET c == <<side, n>> IN
  /\ call[c] = "waiting"
  /\ Drop("error") /\ End(c, "failed")
  /\ UNCHANGED <<lost, image, distributing, losses>>

\* One chunk: a pipe write returns when the pull has read it.  What an agent sent
\* before it was lost may still be on the way.
Chunk(n, k) ==
  LET p == <<"push", n>>
      q == <<"pull", k>> IN
  /\ call[p] = "moving" /\ call[q] = "moving" /\ at[p] = at[q] /\ pipe[at[p]] = "open"
  /\ moved[p] < Size
  /\ moved' = [moved EXCEPT ![p] = @ + 1, ![q] = @ + 1]
  /\ UNCHANGED <<sessionVars, call, at, lost, image, distributing, losses>>

\* PushImage: the builder's stream ended, the write end is closed cleanly.  The
\* builder may be gone by now, its last words on the way before it.
PushDone(n) ==
  LET c == <<"push", n>> IN
  /\ call[c] = "moving" /\ moved[c] = Size
  /\ pipe' = [pipe EXCEPT ![at[c]] = IF @ = "open" THEN "eof" ELSE @]
  /\ End(c, "ok")
  /\ UNCHANGED <<table, made, arrived, lost, image, distributing, losses>>

\* Mutant: a stream that broke ends like one that is complete.
PushBroken_Clean(n) ==
  LET c == <<"push", n>> IN
  /\ call[c] = "moving"
  /\ c \in lost \/ (moved[c] < Size /\ pipe[at[c]] # "open")
  /\ Drop("eof") /\ End(c, "failed")
  /\ UNCHANGED <<lost, image, distributing, losses>>

\* PushImage: the stream broke, or a write met a closed pipe.
PushBroken(n) ==
  LET c == <<"push", n>> IN
  /\ call[c] = "moving"
  /\ c \in lost \/ (moved[c] < Size /\ pipe[at[c]] # "open")
  /\ Drop("error") /\ End(c, "failed")
  /\ UNCHANGED <<lost, image, distributing, losses>>

\* PullImage: the end of the stream, a clean end whether or not the target is still
\* there to hear of it.  Its daemon believes it only if it then has the image.
PullDone(n) ==
  LET c == <<"pull", n>> IN
  /\ call[c] = "moving" /\ pipe[at[c]] = "eof"
  /\ Drop("eof") /\ End(c, "ok")
  /\ image' = (image \/ (c \notin lost /\ moved[c] = Size))
  /\ UNCHANGED <<lost, distributing, losses>>

\* PullImage: the pipe failed, or a chunk is not sent to a target that is gone; the
\* context is not looked at while the read blocks.
PullBroken(n) ==
  LET c == <<"pull", n>> IN
  /\ call[c] = "moving"
  /\ pipe[at[c]] = "error" \/ (c \in lost /\ moved[c] > 0)
  /\ Drop("error") /\ End(c, "failed")
  /\ UNCHANGED <<lost, image, distributing, losses>>

-----------------------------------------------------------------------------
(* The agents, and the deployment.                                         *)

\* The agent dies, its transfer times out, or its connection breaks; the OK to a push
\* can be what is lost.
Lose(side, n) ==
  LET c == <<side, n>> IN
  /\ losses < MaxLoss /\ losses' = losses + 1
  /\ call[c] \in {"got", "waiting", "moving"} \/ (side = "push" /\ call[c] = "ok")
  /\ c \notin lost
  /\ lost' = lost \cup {c}
  /\ UNCHANGED <<sessionVars, callVars, image, distributing>>

\* The target's event reaches the scheduler, or an attempt was the last one.
LeaveDistributing ==
  /\ distributing /\ distributing' = FALSE
  /\ image \/ \E side \in Sides : call[<<side, maxDeliveries>>] = "failed"
  /\ UNCHANGED <<sessionVars, callVars, lost, image, losses>>

Handler(side, n) == Arrive(side, n) \/ Claim(side, n) \/ Meet(side, n)
Stream(n) == PushDone(n) \/ PushBroken(n) \/ PullDone(n) \/ PullBroken(n)

RelayStep ==
  \/ \E side \in Sides, n \in 1..maxDeliveries : Handler(side, n) \/ GiveUpWaiting(side, n)
  \/ \E n \in 1..maxDeliveries : Stream(n) \/ \E k \in 1..maxDeliveries : Chunk(n, k)
  \/ LeaveDistributing

RelayNext ==
  \/ RelayStep
  \/ \E side \in Sides, n \in 1..maxDeliveries : Lose(side, n)

\* Handlers run, timers fire, events arrive; agents need not be lost.
RelayFairness == WF_relayVars(RelayStep)

RelaySpec == RelayInit /\ [][RelayNext]_relayVars /\ RelayFairness

-----------------------------------------------------------------------------
(* Properties.                                                             *)

Busy(c) == call[c] \in {"got", "waiting", "moving"}

\* The table and the calls agree, whichever call drops a session and when: a
\* session that left the table is closed, so that nobody blocks on its pipe for
\* ever, and one that stays in it has somebody at work on it, or the next
\* attempt at the deployment would be refused as busy (Drop, get, attach).
SessionsInStep ==
  /\ \A s \in 1..made : s # table => pipe[s] # "open"
  /\ table # NoSession => \E c \in Calls : Busy(c) /\ at[c] = table

\* A pull that ends cleanly has the whole image: no Drop turns a transfer that broke
\* into an end-of-stream ("nil means a clean end-of-stream").  There is one way round:
\* an earlier pull that its target had given up ends cleanly in the plane, late, and its
\* Drop(nil) falls on the session of a later one.
CleanEndIsWhole == \A n \in 1..maxDeliveries :
  call[<<"pull", n>>] = "ok" =>
    \/ moved[<<"pull", n>>] = Size
    \/ \E m \in 1..(n - 1) : <<"pull", m>> \in lost /\ call[<<"pull", m>>] = "ok"

\* Nobody streams into a pipe whose other end is gone: while a session's pipe is open,
\* whoever moves the image through it has a peer that is at work on it, so that one of the
\* two can go on (Drop, attach, PushImage, PullImage).
PeerAtWork == \A c \in Calls : call[c] = "moving" /\ pipe[at[c]] = "open" =>
  \E d \in Calls : d[1] = Peer(c[1]) /\ at[d] = at[c] /\ call[d] \in {"waiting", "moving"}

\* Nobody waits for ever: every call of the relay returns.
CallsReturn == []<>(\A c \in Calls : ~Busy(c))

-----------------------------------------------------------------------------
(* The inductive invariant behind SessionsInStep and CleanEndIsWhole.      *)

\* A call that makes room for the next attempt of its side.
Past(c) == call[c] = "failed" \/ c \in lost \/ (c[1] = "pull" /\ call[c] = "ok")

\* A call that claimed its side of its session, and streams or has streamed.
Claimed(c) == call[c] \in {"waiting", "moving"} \/ moved[c] > 0

\* The sessions are numbered in the order they were made, one call each at most.
SessionsAreNew ==
  /\ made <= Cardinality({c \in Calls : call[c] # "none"})
  /\ \A s \in Session : s > made => arrived[s] = {} /\ pipe[s] = "open"

\* How far a call has come, and what it has left in its session.
CallsInStep == \A c \in Calls :
  /\ c \in lost => call[c] # "none"
  /\ Busy(c) \/ moved[c] > 0 => at[c] \in 1..made
  /\ call[c] \in {"none", "got", "waiting"} => moved[c] = 0
  /\ Claimed(c) => c[1] \in arrived[at[c]]
  /\ call[c] = "moving" \/ moved[c] > 0 => arrived[at[c]] = Sides

\* A side of a session is claimed once.
OneClaim == \A c, d \in Calls :
  Claimed(c) /\ Claimed(d) /\ c[1] = d[1] /\ at[c] = at[d] => c = d

\* What the push of a session has sent its pull has read.
SameMoved == \A c, d \in Calls :
  Claimed(c) /\ Claimed(d) /\ c[1] # d[1] /\ at[c] = at[d] => moved[c] = moved[d]

\* The attempts of a side come one after the other.
InTurn == \A c, d \in Calls : c[1] = d[1] /\ c[2] < d[2] /\ call[d] # "none" => Past(c)

\* The attempts of a side come to sessions that are ever younger, and the table knows
\* the youngest only.
SessionsInTurn ==
  /\ table \in {NoSession, made}
  /\ \A c \in Calls : call[c] = "none" => at[c] = NoSession
  /\ \A c, d \in Calls : c[1] = d[1] /\ c[2] < d[2] /\ at[d] # NoSession => at[c] <= at[d]

\* A pull of an older session that its target had given up has ended cleanly.
LateEnd(s) == \E c \in lost :
  c[1] = "pull" /\ call[c] = "ok" /\ at[c] # NoSession /\ at[c] < s

\* What a clean end of a session says: whoever reads it has everything, or nobody will
\* ever read it, or it came from a pull that was given up.
WholeEnd(s) ==
  \/ /\ arrived[s] = Sides
     /\ \A q \in Calls : q[1] = "pull" /\ Claimed(q) /\ at[q] = s => moved[q] = Size
  \/ s # table /\ \A q \in Calls : q[1] = "pull" => at[q] # s
  \/ LateEnd(s)

EofIsWhole == \A s \in Session : pipe[s] = "eof" => WholeEnd(s)

\* A claimed session that is still in the table is held by who claimed it.
TableIsHeld == table # NoSession =>
  /\ "pull" \in arrived[table] => \E q \in Calls : /\ q[1] = "pull" /\ at[q] = table
                                                  /\ call[q] \in {"waiting", "moving"}
  /\ "push" \in arrived[table] => \/ "pull" \in arrived[table]
                                  \/ \E p \in Calls : /\ p[1] = "push" /\ at[p] = table
                                                       /\ call[p] \in {"waiting", "moving"}

\* Behind PeerAtWork: who claimed a side of a session leaves its pipe closed.
OpenIsHeld == \A s \in Session, side \in Sides : pipe[s] = "open" /\ side \in arrived[s] =>
  \E c \in Calls : c[1] = side /\ at[c] = s /\ call[c] \in {"waiting", "moving"}

RelayInv ==
  /\ RelayTypeOK /\ SessionsAreNew /\ CallsInStep /\ OneClaim /\ SameMoved /\ InTurn
  /\ SessionsInTurn /\ EofIsWhole /\ TableIsHeld /\ SessionsInStep /\ CleanEndIsWhole
=============================================================================
