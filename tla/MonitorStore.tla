---------------------------- MODULE MonitorStore ----------------------------
(***************************************************************************)
(* What the client library relies on its two SQLite databases for, as one  *)
(* step per call: a read returns every row that is stored or none at all,  *)
(* a write stores all the rows it was handed or none, and a write that is  *)
(* answered TRUE has stored them.  ClientThreads implements this with the  *)
(* mutexes of disk_scan.cpp and the file locks of SQLite.                  *)
(***************************************************************************)
CONSTANTS Callers, Databases, Keys, Quoted

VARIABLES
  rows,    \* what each database holds: a set of <<key, caller that stored it>>
  asked,   \* the keys each caller's call is about
  got,     \* what each caller's last read returned
  told     \* what each caller's last write answered

vars == <<rows, asked, got, told>>

KeysOf(R) == {r[1] : r \in R}

\* Paths are inserted once (the column is UNIQUE), files are replaced.
Put(d, R, K, c) ==
  IF d = "path" THEN R \cup {<<k, c>> : k \in K \ KeysOf(R)}
                ELSE {r \in R : r[1] \notin K} \cup (K \X {c})

\* An apostrophe in a key ends the literal of its INSERT, which is refused.
Storable(K) == K \ Quoted

Init ==
  /\ rows \in [Databases -> SUBSET (Keys \X Callers)]
  /\ asked = [c \in Callers |-> {}]
  /\ got = [c \in Callers |-> {}]
  /\ told = [c \in Callers |-> FALSE]

Ask(c) ==
  /\ \E K \in SUBSET Keys : asked' = [asked EXCEPT ![c] = K]
  /\ got' = [got EXCEPT ![c] = {}]
  /\ told' = [told EXCEPT ![c] = FALSE]
  /\ UNCHANGED rows

Read(c, d) ==
  /\ \E R \in {{}, rows[d]} : got' = [got EXCEPT ![c] = R]
  /\ UNCHANGED <<rows, asked, told>>

Write(c, d) ==
  /\ rows' = [rows EXCEPT ![d] = Put(d, @, Storable(asked[c]), c)]
  /\ told' = [told EXCEPT ![c] = TRUE]
  /\ UNCHANGED <<asked, got>>

Refuse(c) ==
  /\ told' = [told EXCEPT ![c] = FALSE]
  /\ UNCHANGED <<rows, asked, got>>

Next == \E c \in Callers : Ask(c) \/ Refuse(c) \/ \E d \in Databases : Read(c, d) \/ Write(c, d)

Spec == Init /\ [][Next]_vars
=============================================================================
