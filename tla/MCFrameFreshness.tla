-------------------------- MODULE MCFrameFreshness --------------------------
(* What the proxy tells of the game and of the editor, in two instances     *)
(* that share no state; the first state chooses one.  Captures: three calls, *)
(* and which of them are mutations, advances and captures is left open; two *)
(* can come in one millisecond.  The log: two boots, one poll at a time, and *)
(* an inode that comes back.                                                *)
EXTENDS ToldFrames, FollowedLog

CONSTANTS c1, c2, c3
VARIABLE kind

frames == <<now, marks, pc, contract, waiters, timers, wire, game, shot, verdict, past>>
log    == <<file, boot, tail, seen, polls, history>>
all    == <<frames, kind, log>>

TellInit == /\ kind \in {"frames", "log"} /\ Frames!Init /\ Log!Init
            /\ kind = "frames" => file = Log!NoFile

\* Which call is which does not matter: they come in the order of their names.
Named == /\ pc[c2] # "new" => pc[c1] # "new"
         /\ pc[c3] # "new" => pc[c2] # "new"

\* Bound: two calls are held for their steps only where no third comes.
Alone == pc[c3] # "new" => \A a, b \in Call :
           past.kind[a] = "stepped" /\ past.kind[b] = "stepped" => a = b

Framed(A) == kind = "frames" /\ A /\ UNCHANGED <<kind, log>>
Logged(A) == kind = "log" /\ A /\ UNCHANGED <<kind, frames>>
TellNext  == Framed(Frames!Next /\ Named' /\ Alone') \/ Logged(Log!Next)

(* The Fairness of FrameFreshness; the log is polled again and again, and   *)
(* its file system answers.                                                 *)
TellSpec ==
  /\ TellInit /\ [][TellNext]_all
  /\ \A i \in Frames!StepId : /\ WF_all(Framed(Frames!StepAnswered(i)))
                              /\ \A c \in Call : WF_all(Framed(Frames!StepTimer(i, c)))
  /\ WF_all(Logged(\E p \in Poll : Log!Stat(p)))
  /\ \A p \in Poll : WF_all(Logged(Log!Read(p) \/ Log!Take(p) \/ Log!Scan(p)))

(* Of the captures held for the step of one millisecond, one at least is    *)
(* sent on in the end (FrameFreshness).                                     *)
HeldGoesOn == Frames!HeldGoesOn

(* The line of the lease's end is not missed, whatever part of it was there *)
(* when the log was read (LogTail).                                         *)
ExitIsSeen == Log!ExitIsSeen
=============================================================================
