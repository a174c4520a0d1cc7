---------------------------- MODULE ScanSession ----------------------------
(***************************************************************************)
(* What the scan service promises its clients, without threads, flags,     *)
(* pipes or a mutex: the directories a client is told are a part of one    *)
(* answer, told one after the other, and a client that is told that the    *)
(* answer is finished has been told all of it, from where it came in.      *)
(* ScanService implements this module (INSTANCE there, with a proof in     *)
(* ScanSessionProofs).                                                     *)
(***************************************************************************)
EXTENDS Naturals, Sequences

CONSTANTS Clients, Dirs

VARIABLES
  answer,    \* the directories found, in the order of the scan
  whole,     \* clients that were there when the answer began
  told,      \* directories each client has been told
  session    \* "open", "finished" by the answer, "stopped", or "gone"

vars == <<answer, whole, told, session>>

Init ==
  /\ answer = <<>>
  /\ whole = {}
  /\ told = [c \in Clients |-> <<>>]
  /\ session = [c \in Clients |-> "open"]

\* Nobody who waits for the end of the answer has been told anything.
Unbegun == \A c \in Clients : session[c] = "open" => told[c] = <<>>

\* The answer changes only while nobody has been told a part of it.
Scan ==
  /\ Unbegun
  /\ answer' \in Seq(Dirs)
  /\ UNCHANGED <<whole, told, session>>

\* From here on the answer is told; some clients are promised all of it.
Begin ==
  /\ Unbegun
  /\ whole' \in SUBSET Clients
  /\ UNCHANGED <<answer, told, session>>

\* c, which came in after n directories, is told the next one.
Tell(c) ==
  /\ session[c] = "open"
  /\ \E n \in 0 .. Len(answer), k \in 0 .. Len(answer) :
       /\ told[c] = SubSeq(answer, n + 1, k)
       /\ n <= k /\ k < Len(answer)
       /\ told' = [told EXCEPT ![c] = Append(@, answer[k + 1])]
  /\ UNCHANGED <<answer, whole, session>>

\* c is told that this was all.
Finish(c) ==
  /\ session[c] = "open"
  /\ \E n \in 0 .. Len(answer) :
       /\ told[c] = SubSeq(answer, n + 1, Len(answer))
       /\ c \in whole => n = 0
  /\ session' = [session EXCEPT ![c] = "finished"]
  /\ UNCHANGED <<answer, whole, told>>

\* c is told that the service stops.
Stop(c) ==
  /\ session[c] = "open"
  /\ session' = [session EXCEPT ![c] = "stopped"]
  /\ UNCHANGED <<answer, whole, told>>

\* c ends, or its request is refused.
Leave(c) ==
  /\ session[c] # "gone"
  /\ session' = [session EXCEPT ![c] = "gone"]
  /\ UNCHANGED <<answer, whole, told>>

Next ==
  \/ Scan \/ Begin
  \/ \E c \in Clients : Tell(c) \/ Finish(c) \/ Stop(c) \/ Leave(c)

Spec == Init /\ [][Next]_vars
=============================================================================
