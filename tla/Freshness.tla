----------------------------- MODULE Freshness -----------------------------
(***************************************************************************)
(* What the read-through cache of the app's content promises to those who  *)
(* read it.  An entry shows something of one or more sources, and may be   *)
(* behind a source, never longer than a bound; and once the edit of a      *)
(* source was published, only entries filled before it, and stored after   *)
(* it, may still be behind.                                                *)
(*                                                                         *)
(* age[k][s] is 0 if entry k shows nothing of s, 1 if what it shows is     *)
(* current, and 2 + n if that was superseded n ticks ago.                  *)
(***************************************************************************)
EXTENDS Naturals

CONSTANTS Keys, Sources, Bound

VARIABLES
  age,
  late,          \* entries that were behind when they were stored, or fell behind
                 \* with nobody editing
  published      \* sources whose last edit was answered

vars == <<age, late, published>>

Nothing == [s \in Sources |-> 0]
Superseded(f, s) == [f EXCEPT ![s] = IF @ = 1 THEN 2 ELSE @]
Aged(f) == [s \in Sources |-> IF f[s] < 2 THEN f[s] ELSE f[s] + 1]
Current(f) == \A s \in Sources : f[s] \in {0, 1}

Init ==
  /\ age = [k \in Keys |-> Nothing]
  /\ late = {}
  /\ published = Sources

Edit(s) ==
  /\ age' = [k \in Keys |-> Superseded(age[k], s)]
  /\ published' = published \ {s}
  /\ UNCHANGED late

\* The source changes by itself.
Drift(s) ==
  /\ age' = [k \in Keys |-> Superseded(age[k], s)]
  /\ late' = late \cup {k \in Keys : age[k][s] = 1}
  /\ UNCHANGED published

Publish(s) ==
  /\ \A k \in Keys \ late : age[k][s] \in {0, 1}
  /\ published' = published \cup {s}
  /\ UNCHANGED <<age, late>>

Store(k, f) ==
  /\ f \in [Sources -> 0 .. Bound[k]]
  /\ age' = [age EXCEPT ![k] = f]
  /\ late' = IF Current(f) THEN late \ {k} ELSE late \cup {k}
  /\ UNCHANGED published

Drop(K) ==
  /\ age' = [k \in Keys |-> IF k \in K THEN Nothing ELSE age[k]]
  /\ late' = late \ K
  /\ UNCHANGED published

\* Time passes, and the entries K end with it.
Tick(K) ==
  /\ age' = [k \in Keys |-> IF k \in K THEN Nothing ELSE Aged(age[k])]
  /\ \A k \in Keys, s \in Sources : age'[k][s] <= Bound[k]
  /\ late' = late \ K
  /\ UNCHANGED published

Next ==
  \/ \E s \in Sources : Edit(s) \/ Drift(s) \/ Publish(s)
  \/ \E k \in Keys : Store(k, age'[k])
  \/ \E K \in SUBSET Keys : Drop(K) \/ Tick(K)

Spec == Init /\ [][Next]_vars

\* What this means for a reader: of a source whose last edit was published he sees
\* what is current, but for the entries that are late.
PublishedIsSeen ==
  \A s \in published, k \in Keys \ late : age[k][s] \in {0, 1}
=============================================================================
