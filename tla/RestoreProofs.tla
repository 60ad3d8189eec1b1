---------------------------- MODULE RestoreProofs ---------------------------
(* Going back, whichever step power is lost at: what the boot menu starts is *)
(* there, for every number of packages, versions, kernels and points.        *)
EXTENDS RestorePoints, SequenceTheorems, FiniteSetTheorems, TLAPS

\* A system, as opposed to NoSys.
Whole(sys) ==
    /\ DOMAIN sys = {"pkg", "pins", "kept", "kernels"}
    /\ DOMAIN sys.pkg = Pkgs

\* Steps that do not exchange @: every command's but going back's first ones.
Exchanging == {"rename", "restore", "default", "prefs"}
Plain(q) == q \in Seq(Range(q)) /\ \A i \in 1..Len(q) : q[i][1] \notin Exchanging

\* Going back to s from its k-th step on: the steps up to 7 exchange @.
AllBack(s) == <<<<"snapshot", 0>>, <<"info", 0>>, <<"copy", 0>>,
                <<"rename", 0>>, <<"restore", s>>, <<"default", 0>>,
                <<"prefs", s>>, <<"kernels", s>>, <<"prune", 0>>, <<"entries", 0>>>>
Back(s, k) == [i \in 1..(11 - k) |-> AllBack(s)[i + k - 1]]

\* Every point holds a system, and so does everything going back has replaced.
Kept ==
    /\ IsFiniteSet(DOMAIN points)
    /\ \A s \in DOMAIN points : "sys" \in DOMAIN points[s] /\ Whole(points[s].sys)
    /\ \A t \in DOMAIN olds : Whole(olds[t])
\* The default subvolume is a system's, and @ is a system or is not there.
Rooted ==
    /\ root = NoSys \/ Whole(root)
    /\ \/ default = At /\ Whole(root)
       \/ \E t \in DOMAIN olds : default = <<"old", t>>
\* How far going back is: with @ away what it was is kept aside, and the
\* default subvolume moves to @ only once that is a system again.
Far(s, k) ==
    /\ todo = Back(s, k)
    /\ k = 5 => job.new \in DOMAIN olds
    /\ k > 5 => Whole(root)
Staged == Plain(todo) \/ \E s \in DOMAIN points, k \in 1..7 : Far(s, k)
\* @ is away only between the two steps that exchange it, or after a power cut.
Away == root = NoSys /\ "cut" \notin harm => \E s \in DOMAIN points : todo = Back(s, 5)

BackInv == Kept /\ Rooted /\ Staged /\ Away

-----------------------------------------------------------------------------
(* Systems.                                                                  *)

\* What is a system is not NoSys: it has packages.
LEMMA WholeIsThere ==
    ASSUME NEW sys, Whole(sys)
    PROVE  sys # NoSys
BY BoundsAssumption DEF Whole, NoSys

\* dpkg leaves a system.
LEMMA AfterWhole ==
    ASSUME NEW sys, Whole(sys) \/ sys = NoSys
    PROVE  Whole(After(sys))
BY DEF Whole, NoSys, After

-----------------------------------------------------------------------------
(* Sequences of steps.                                                       *)

\* A sequence is one of what is in it.
LEMMA OwnRange ==
    ASSUME NEW S, NEW q \in Seq(S)
    PROVE  q \in Seq(Range(q))
BY LenProperties, SeqDef DEF Range

\* A function on 1..n is a sequence of n.
LEMMA Listed ==
    ASSUME NEW S, NEW n \in Nat, NEW f \in [1..n -> S]
    PROVE  f \in Seq(S) /\ Len(f) = n /\ (n # 0 => f # <<>>)
BY LenProperties, SeqDef, EmptySeq

\* No step is a plain sequence, and a plain one stays so without its first step.
LEMMA PlainTail ==
    ASSUME NEW q, Plain(q), q # <<>>
    PROVE  /\ Head(q)[1] \notin Exchanging
           /\ Plain(Tail(q))
<1> DEFINE S == Range(q)
<1>0. q \in Seq(S)
  BY DEF Plain
<1>1. /\ Head(q) = q[1] /\ Len(q) \in Nat /\ Len(q) >= 1
      /\ Tail(q) \in Seq(S) /\ Len(Tail(q)) = Len(q) - 1
      /\ \A i \in 1..Len(Tail(q)) : Tail(q)[i] = q[i + 1]
  BY <1>0, HeadTailProperties, LenProperties, EmptySeq
<1>2. Tail(q) \in Seq(Range(Tail(q)))
  BY <1>1, OwnRange, Zenon
<1> QED
  BY <1>1, <1>2 DEF Plain

\* Plain sequences one after the other are a plain sequence.
LEMMA PlainConcat ==
    ASSUME NEW q, NEW r, Plain(q), Plain(r)
    PROVE  Plain(q \o r)
<1> DEFINE S == Range(q) \cup Range(r)
<1>1. q \in Seq(Range(q)) /\ r \in Seq(Range(r))
  BY DEF Plain
<1>2. q \in Seq(S) /\ r \in Seq(S)
  BY <1>1
<1>3. /\ q \o r \in Seq(S) /\ Len(q \o r) = Len(q) + Len(r)
      /\ Len(q) \in Nat /\ Len(r) \in Nat
      /\ \A i \in 1..(Len(q) + Len(r)) : (q \o r)[i] = IF i <= Len(q) THEN q[i] ELSE r[i - Len(q)]
  BY <1>2, ConcatProperties, LenProperties
<1>4. q \o r \in Seq(Range(q \o r))
  BY <1>3, OwnRange, Zenon
<1>5. ASSUME NEW i \in 1..Len(q \o r) PROVE (q \o r)[i][1] \notin Exchanging
  BY <1>3, <1>5 DEF Plain
<1> QED
  BY <1>4, <1>5 DEF Plain

\* Two plain steps for each point of a finite set are.
LEMMA PlainForEach ==
    ASSUME NEW S, IsFiniteSet(S), NEW a, NEW b, a \notin Exchanging, b \notin Exchanging
    PROVE  Plain(ForEach(S, a, b))
<1> DEFINE q == ForEach(S, a, b)
           n == 2 * Cardinality(S)
<1>1. n \in Nat
  BY FS_CardinalityType
<1>2. q = [i \in 1..n |-> q[i]] /\ DOMAIN q = 1..n
  BY DEF ForEach
<1>3. \A i \in 1..n : q[i] \in Range(q)
  BY <1>2 DEF Range
<1>4. q \in Seq(Range(q)) /\ Len(q) = n
  BY <1>1, <1>2, <1>3, LenProperties, SeqDef
<1>5. \A i \in 1..n : q[i][1] \in {a, b}
  BY DEF ForEach
<1> QED
  BY <1>4, <1>5 DEF Plain

\* The short ones.
LEMMA PlainShort ==
    /\ Plain(<<>>)
    /\ \A op \in {"entries", "low", "merge", "mark", "olds"} : \A s : Plain(<<<<op, s>>>>)
    /\ \A s : Plain(Deletes(s))
    /\ Plain(Take)
    /\ Plain(<<<<"prune", 0>>, <<"entries", 0>>>>)
BY OwnRange DEF Plain, Deletes, Take, Exchanging, Range

\* Going back step by step.
LEMMA BackSteps ==
    ASSUME NEW s, NEW k \in 1..7
    PROVE  /\ Back(s, k) # <<>> /\ Tail(Back(s, k)) # <<>>
           /\ Head(Back(s, k)) = AllBack(s)[k]
           /\ Tail(Back(s, k)) = Back(s, k + 1)
<1> DEFINE S == {AllBack(s)[i] : i \in 1..10}
           q == Back(s, k)
<1>1. q \in [1..(11 - k) -> S]
  BY DEF Back
<1> HIDE DEF q, S
<1>2. q \in Seq(S) /\ Len(q) = 11 - k /\ q # <<>>
  BY <1>1, Listed
<1>3. Tail(q) \in Seq(S) /\ Len(Tail(q)) = 10 - k
  BY <1>2, HeadTailProperties
<1>4. Tail(q) # <<>>
  <2> DEFINE t == Tail(q)
  <2>1. t \in Seq(S) /\ Len(t) = 10 - k
    BY <1>3
  <2> HIDE DEF t
  <2>2. t # <<>>
    BY <2>1, EmptySeq
  <2> QED
    BY <2>2 DEF t
<1>5. Head(q) = AllBack(s)[k]
  BY <1>2, HeadTailProperties DEF Back, q
<1>6. Tail(q) = [i \in 1..(10 - k) |-> q[i + 1]]
  <2>1. Tail(q) = [i \in 1..Len(Tail(q)) |-> Tail(q)[i]]
    BY <1>3, LenProperties, Zenon
  <2>2. \A i \in 1..(10 - k) : Tail(q)[i] = q[i + 1]
    BY <1>2, <1>3, HeadTailProperties
  <2> QED
    BY <1>3, <2>1, <2>2
<1>7. \A i \in 1..(10 - k) : q[i + 1] = AllBack(s)[i + (k + 1) - 1]
  BY DEF Back, q
<1>8. Tail(q) = Back(s, k + 1)
  <2>1. Back(s, k + 1) = [i \in 1..(11 - (k + 1)) |-> AllBack(s)[i + (k + 1) - 1]]
    BY DEF Back
  <2>2. 11 - (k + 1) = 10 - k
    OBVIOUS
  <2> QED
    BY <1>6, <1>7, <2>1, <2>2, Zenon
<1> QED
  BY <1>2, <1>4, <1>5, <1>8 DEF q

\* After the exchange only plain steps are left.
LEMMA BackEnds ==
    ASSUME NEW s
    PROVE  Plain(Back(s, 8))
<1>1. Back(s, 8) = <<<<"kernels", s>>, <<"prune", 0>>, <<"entries", 0>>>>
  BY DEF Back, AllBack
<1> QED
  BY <1>1, OwnRange DEF Plain, Exchanging, Range

\* Going back begins with a point of the system as it is, or with the exchange.
LEMMA BackBegins ==
    ASSUME NEW s
    PROVE  GoBackSteps(s) \in {Back(s, 1), Back(s, 4)}
<1>1. Back(s, 1) = AllBack(s)
  BY DEF Back, AllBack
<1>2. Back(s, 4) = <<<<"rename", 0>>, <<"restore", s>>, <<"default", 0>>, <<"prefs", s>>,
                     <<"kernels", s>>, <<"prune", 0>>, <<"entries", 0>>>>
  BY DEF Back, AllBack
<1>3. ExchangeRoot(s) \o <<<<"prefs", s>>, <<"kernels", s>>, <<"prune", 0>>, <<"entries", 0>>>> = Back(s, 4)
  BY <1>2 DEF ExchangeRoot
<1>4. <<>> \o Back(s, 4) = Back(s, 4)
  BY <1>2
<1>5. Take \o Back(s, 4) = Back(s, 1)
  <2> DEFINE S == {AllBack(s)[i] : i \in 1..10}
             b == Back(s, 4)
             q == Take \o b
             r == Back(s, 1)
  <2>1. Take \in Seq(S) /\ Len(Take) = 3
    BY DEF Take, AllBack
  <2>2. b \in [1..7 -> S] /\ r \in [1..10 -> S]
    BY DEF Back
  <2>3. \A i \in 1..3 : Take[i] = r[i]
    BY DEF Take, AllBack, Back
  <2>4. \A i \in 4..10 : b[i - 3] = r[i]
    BY DEF Back
  <2> HIDE DEF S, r, b
  <2>a. b \in Seq(S) /\ Len(b) = 7
    <3>1. 7 \in Nat /\ b \in [1..7 -> S]
      BY <2>2
    <3> QED
      BY <3>1, Listed, Zenon
  <2>b. r \in Seq(S) /\ Len(r) = 10
    <3>1. 10 \in Nat /\ r \in [1..10 -> S]
      BY <2>2
    <3> QED
      BY <3>1, Listed, Zenon
  <2>5. b \in Seq(S) /\ Len(b) = 7 /\ r \in Seq(S) /\ Len(r) = 10
    BY <2>a, <2>b
  <2>6. /\ q \in Seq(S) /\ Len(q) = 10
        /\ \A i \in 1..10 : q[i] = IF i <= 3 THEN Take[i] ELSE b[i - 3]
    <3>1. /\ q \in Seq(S) /\ Len(q) = Len(Take) + Len(b)
          /\ \A i \in 1..(Len(Take) + Len(b)) : q[i] = IF i <= Len(Take) THEN Take[i] ELSE b[i - Len(Take)]
      BY <2>1, <2>5, ConcatProperties, Zenon
    <3> HIDE DEF q
    <3> QED
      BY <2>1, <2>5, <3>1
  <2> HIDE DEF q
  <2>7. \A i \in 1..10 : q[i] = r[i]
    BY <2>3, <2>4, <2>6
  <2>8. q = r
    BY <2>5, <2>6, <2>7, SeqEqual, Zenon
  <2> QED
    BY <2>8 DEF q, r, b
<1> QED
  BY <1>3, <1>4, <1>5, Zenon DEF GoBackSteps

-----------------------------------------------------------------------------
(* What a step does to how far going back is.                                *)

\* The step that is next says how far it is.
LEMMA Where ==
    ASSUME NEW s, NEW k \in 1..7, todo = Back(s, k)
    PROVE  /\ todo # <<>> /\ Tail(todo) # <<>>
           /\ Head(todo) = AllBack(s)[k] /\ Tail(todo) = Back(s, k + 1)
           /\ Head(todo)[1] \in Exchanging <=> k >= 4
           /\ Head(todo)[1] \in {"snapshot", "info", "copy"} \cup Exchanging
           /\ Step("rename") <=> k = 4
           /\ Step("restore") <=> k = 5
           /\ Step("default") <=> k = 6
           /\ Step("prefs") <=> k = 7
<1>1. /\ todo # <<>> /\ Tail(todo) # <<>>
      /\ Head(todo) = AllBack(s)[k] /\ Tail(todo) = Back(s, k + 1)
  BY BackSteps, Zenon
<1>2. k = 1 \/ k = 2 \/ k = 3 \/ k = 4 \/ k = 5 \/ k = 6 \/ k = 7
  OBVIOUS
<1>3. /\ k = 1 => Head(todo)[1] = "snapshot"
      /\ k = 2 => Head(todo)[1] = "info"
      /\ k = 3 => Head(todo)[1] = "copy"
      /\ k = 4 => Head(todo)[1] = "rename"
      /\ k = 5 => Head(todo)[1] = "restore"
      /\ k = 6 => Head(todo)[1] = "default"
      /\ k = 7 => Head(todo)[1] = "prefs"
  <2>1. /\ AllBack(s)[1] = <<"snapshot", 0>> /\ AllBack(s)[2] = <<"info", 0>> /\ AllBack(s)[3] = <<"copy", 0>>
        /\ AllBack(s)[4] = <<"rename", 0>> /\ AllBack(s)[5] = <<"restore", s>>
        /\ AllBack(s)[6] = <<"default", 0>> /\ AllBack(s)[7] = <<"prefs", s>>
    BY DEF AllBack
  <2> QED
    BY <1>1, <2>1
<1> QED
  BY <1>1, <1>2, <1>3 DEF Step, Exchanging

\* A step that exchanges something is going back's.
LEMMA WhichStep ==
    ASSUME Staged, todo # <<>>, Head(todo)[1] \in Exchanging
    PROVE  \E s \in DOMAIN points, k \in 4..7 : Far(s, k)
<1>1. ~Plain(todo)
  BY PlainTail
<1>2. PICK s \in DOMAIN points, k \in 1..7 : Far(s, k)
  BY <1>1 DEF Staged
<1>3. k \in 4..7
  BY <1>2, Where DEF Far
<1> QED
  BY <1>2, <1>3

\* Except before the step that makes the new @, it is there or power was lost.
LEMMA Present ==
    ASSUME Away, ~Step("restore")
    PROVE  root # NoSys \/ "cut" \in harm
<1> SUFFICES ASSUME NEW s, todo = Back(s, 5) PROVE FALSE
  BY DEF Away
<1> QED
  BY Where

\* Any other step brings going back one step on.
LEMMA Onward ==
    ASSUME Staged, Away, todo # <<>>, Head(todo)[1] \notin Exchanging, todo' = Tail(todo),
           root' = root, harm \subseteq harm',
           DOMAIN points \subseteq DOMAIN points' \/ Step("unsnap")
    PROVE  Staged' /\ Away'
<1>1. Away'
  BY Present DEF Away, Step, Exchanging
<1>2. CASE Plain(todo)
  <2>1. Plain(todo')
    BY <1>2, PlainTail
  <2> QED
    BY <1>1, <2>1 DEF Staged
<1>3. ASSUME NEW s \in DOMAIN points, NEW k \in 1..7, Far(s, k) PROVE Staged'
  <2>1. k \in 1..3 /\ todo' = Back(s, k + 1) /\ s \in DOMAIN points'
    BY <1>3, Where DEF Far, Step, Exchanging
  <2>2. Far(s, k + 1)'
    BY <2>1 DEF Far
  <2> QED
    BY <2>1, <2>2 DEF Staged
<1> QED
  BY <1>1, <1>2, <1>3 DEF Staged

\* So does what begins or ends with plain steps.
LEMMA Anew ==
    ASSUME Away, ~Step("restore"), Plain(todo'), root' = root, harm \subseteq harm'
    PROVE  Staged' /\ Away'
BY Present DEF Staged, Away

-----------------------------------------------------------------------------
(* The invariant is preserved.                                               *)

\* Points may go and be written to, as long as their snapshots stay as they are.
SameSystems ==
    /\ DOMAIN points' \subseteq DOMAIN points
    /\ \A s \in DOMAIN points' : "sys" \in DOMAIN points'[s] /\ points'[s].sys = points[s].sys

LEMMA KeptStill ==
    ASSUME Kept, olds' = olds, SameSystems
    PROVE  Kept'
<1>1. IsFiniteSet(DOMAIN points')
  BY FS_Subset DEF Kept, SameSystems
<1> QED
  BY <1>1 DEF Kept, SameSystems

\* The steps that write to points, one of which deletes one.
LEMMA PointStep ==
    ASSUME BackInv,
           \/ info \/ copy \/ merge_changes \/ delete_boot \/ delete_snapshot \/ mark \/ recopy
    PROVE  BackInv'
<1>1. UNCHANGED <<root, olds, default, harm>> /\ todo # <<>> /\ todo' = Tail(todo)
  BY DEF info, copy, merge_changes, delete_boot, delete_snapshot, mark, recopy, Step, Goes, PointsOnly, DriveOnly
<1>2. Head(todo)[1] \notin Exchanging
  BY DEF info, copy, merge_changes, delete_boot, delete_snapshot, mark, recopy, Step, Exchanging
<1>3. SameSystems /\ (DOMAIN points \subseteq DOMAIN points' \/ Step("unsnap"))
  <2> USE DEF BackInv, Kept, SameSystems
  <2>1. CASE info
    BY <2>1 DEF info
  <2>2. CASE copy
    BY <2>2 DEF copy
  <2>3. CASE merge_changes
    BY <2>3 DEF merge_changes
  <2>4. CASE delete_boot
    BY <2>4 DEF delete_boot
  <2>5. CASE delete_snapshot
    BY <2>5 DEF delete_snapshot, Restrict
  <2>6. CASE mark
    BY <2>6 DEF mark
  <2>7. CASE recopy
    BY <2>7 DEF recopy
  <2> QED
    BY <2>1, <2>2, <2>3, <2>4, <2>5, <2>6, <2>7
<1>4. Kept'
  BY <1>1, <1>3, KeptStill DEF BackInv
<1>5. Rooted'
  BY <1>1 DEF BackInv, Rooted
<1>6. Staged' /\ Away'
  BY <1>1, <1>2, <1>3, Onward DEF BackInv
<1> QED
  BY <1>4, <1>5, <1>6 DEF BackInv

\* The steps that write to the boot menu only.
LEMMA MenuStep ==
    ASSUME BackInv, make_entries \/ match_kernels
    PROVE  BackInv'
<1>1. UNCHANGED <<root, olds, default, points, harm>> /\ todo # <<>> /\ todo' = Tail(todo)
      /\ Head(todo)[1] \notin Exchanging
  BY DEF make_entries, match_kernels, Step, Goes, Exchanging
<1>2. Kept' /\ Rooted'
  BY <1>1 DEF BackInv, Kept, Rooted
<1>3. Staged' /\ Away'
  BY <1>1, Onward DEF BackInv
<1> QED
  BY <1>2, <1>3 DEF BackInv

\* Another point: the system as it is now.
LEMMA SnapshotStep ==
    ASSUME BackInv, snapshot
    PROVE  BackInv'
<1>1. UNCHANGED <<root, olds, default, harm>> /\ todo # <<>> /\ Head(todo)[1] \notin Exchanging /\ ~Step("restore")
  BY DEF snapshot, Step, Exchanging
<1>2. Rooted'
  BY <1>1 DEF BackInv, Rooted
<1>3. CASE root = NoSys
  <2>1. points' = points /\ Plain(todo')
    BY <1>3, PlainShort DEF snapshot, Goes
  <2>2. Kept'
    BY <1>1, <2>1 DEF BackInv, Kept
  <2>3. Staged' /\ Away'
    BY <1>1, <2>1, Anew DEF BackInv
  <2> QED
    BY <1>2, <2>2, <2>3 DEF BackInv
<1>4. CASE root # NoSys
  <2> DEFINE pt == [sys |-> root, kind |-> "?", source |-> "update", kernels |-> {}, changes |-> {},
                    fresh |-> TRUE, boot |-> "none", for |-> IF job.cmd = "apt" THEN apt.src ELSE "hand"]
  <2>1. points' = Put(points, next, pt) /\ todo' = Tail(todo)
    BY <1>4 DEF snapshot
  <2>2. "sys" \in DOMAIN pt /\ pt.sys = root /\ Whole(root)
    BY <1>4 DEF BackInv, Rooted
  <2> HIDE DEF pt
  <2>3. /\ DOMAIN points' = DOMAIN points \cup {next}
        /\ \A s \in DOMAIN points' : points'[s] = IF s = next THEN pt ELSE points[s]
    BY <2>1 DEF Put
  <2>4. IsFiniteSet(DOMAIN points')
    BY <2>3, FS_AddElement DEF BackInv, Kept
  <2>5. Kept'
    BY <1>1, <2>2, <2>3, <2>4 DEF BackInv, Kept
  <2>6. Staged' /\ Away'
    BY <1>1, <2>1, <2>3, Onward DEF BackInv
  <2> QED
    BY <1>2, <2>5, <2>6 DEF BackInv
<1> QED
  BY <1>3, <1>4

\* Pruning puts only deletions before what is left.
LEMMA PruneStep ==
    ASSUME BackInv, prune \/ prune_low
    PROVE  BackInv'
<1>1. UNCHANGED <<root, olds, default, points, harm>> /\ todo # <<>> /\ Head(todo)[1] \in {"prune", "low"}
  BY DEF prune, prune_low, Step, PointsOnly, DriveOnly, drive
<1>2. Head(todo)[1] \notin Exchanging /\ ~Step("restore")
  BY <1>1 DEF Exchanging, Step
<1>3. Plain(todo)
  <2> SUFFICES ASSUME NEW s \in DOMAIN points, NEW k \in 1..7, Far(s, k) PROVE FALSE
    BY DEF BackInv, Staged
  <2>1. todo = Back(s, k)
    BY DEF Far
  <2>2. Head(todo)[1] \in {"snapshot", "info", "copy"} \cup Exchanging
    BY <2>1, Where
  <2> QED
    BY <1>1, <2>2 DEF Exchanging
<1>4. Plain(Tail(todo))
  BY <1>1, <1>3, PlainTail
<1>5. Plain(todo')
  <2>1. CASE prune
    <3>1. IsFiniteSet(surplus(Keep))
      <4>1. surplus(Keep) \subseteq DOMAIN points
        BY Zenon DEF surplus, Oldest
      <4> QED
        BY <4>1, FS_Subset DEF BackInv, Kept
    <3>2. Plain(DeleteAll(surplus(Keep)))
      BY <3>1, PlainForEach DEF DeleteAll, Exchanging
    <3>3. Plain(<<<<"low", 0>>>>)
      BY PlainShort
    <3>4. Plain(DeleteAll(surplus(Keep)) \o <<<<"low", 0>>>> \o Tail(todo))
      BY <1>4, <3>2, <3>3, PlainConcat
    <3> QED
      BY <2>1, <3>4 DEF prune, Goes
  <2>2. CASE prune_low
    <3>1. Plain(Deletes(FirstToGo) \o todo)
      BY <1>3, PlainShort, PlainConcat
    <3> QED
      BY <1>4, <2>2, <3>1, Zenon DEF prune_low, Goes
  <2> QED
    BY <2>1, <2>2
<1>6. Kept' /\ Rooted'
  BY <1>1 DEF BackInv, Kept, Rooted
<1>7. Staged' /\ Away'
  BY <1>1, <1>2, <1>5, Anew DEF BackInv
<1> QED
  BY <1>6, <1>7 DEF BackInv

\* @ is put aside, and with it the default subvolume if it was that.
LEMMA RenameStep ==
    ASSUME BackInv, rename
    PROVE  BackInv'
<1>1. UNCHANGED <<points, harm>> /\ todo # <<>> /\ Head(todo)[1] = "rename" /\ Step("rename") /\ ~Step("restore")
  BY DEF rename, Step
<1>2. PICK s \in DOMAIN points, k \in 4..7 : Far(s, k)
  BY <1>1, WhichStep DEF BackInv, Exchanging
<1>3. k = 4 /\ Tail(todo) = Back(s, 5) /\ Tail(todo) # <<>>
  BY <1>1, <1>2, Where DEF Far
<1>4. CASE root = NoSys
  <2>1. UNCHANGED <<root, olds, default>> /\ Plain(todo')
    BY <1>4, PlainShort DEF rename, Goes
  <2>2. Kept' /\ Rooted'
    BY <1>1, <2>1 DEF BackInv, Kept, Rooted
  <2>3. Staged' /\ Away'
    BY <1>1, <2>1, Anew DEF BackInv
  <2> QED
    BY <2>2, <2>3 DEF BackInv
<1>5. CASE root # NoSys
  <2>1. /\ olds' = Put(olds, job.new, root) /\ root' = NoSys
        /\ default' = Moved(default, At, <<"old", job.new>>)
        /\ todo' = Back(s, 5) /\ job' = job
    BY <1>3, <1>5 DEF rename, Goes
  <2>2. DOMAIN olds' = DOMAIN olds \cup {job.new} /\ \A t \in DOMAIN olds' : Whole(olds'[t])
    BY <1>5, <2>1 DEF BackInv, Kept, Rooted, Put
  <2>3. Kept'
    BY <1>1, <2>2 DEF BackInv, Kept
  <2>4. Rooted'
    BY <2>1, <2>2 DEF BackInv, Rooted, Moved
  <2>5. Far(s, 5)' /\ s \in DOMAIN points'
    BY <1>1, <2>1, <2>2 DEF Far
  <2>6. Staged' /\ Away'
    BY <2>1, <2>5 DEF Staged, Away
  <2> QED
    BY <2>3, <2>4, <2>6 DEF BackInv
<1> QED
  BY <1>4, <1>5

\* The new @ is a point's snapshot; or what was put aside, when there is none.
LEMMA RestoreStep ==
    ASSUME BackInv, restore \/ restore_fails
    PROVE  BackInv'
<1>1. points' = points /\ todo # <<>> /\ Head(todo)[1] = "restore" /\ Step("restore")
  BY DEF restore, restore_fails, Step
<1>2. PICK s \in DOMAIN points, k \in 4..7 : Far(s, k)
  BY <1>1, WhichStep DEF BackInv, Exchanging
<1>3. k = 5 /\ Tail(todo) = Back(s, 6) /\ Head(todo) = <<"restore", s>> /\ job.new \in DOMAIN olds
  BY <1>1, <1>2, Where DEF Far, AllBack
<1>4. CASE restore
  <2>1. UNCHANGED <<olds, default>> /\ todo' = Back(s, 6) /\ root' = points[s].sys
    BY <1>3, <1>4 DEF restore, Arg, Goes
  <2>2. Whole(root')
    BY <2>1 DEF BackInv, Kept
  <2>3. Kept' /\ Rooted'
    BY <1>1, <2>1, <2>2 DEF BackInv, Kept, Rooted
  <2>4. Far(s, 6)' /\ s \in DOMAIN points'
    BY <1>1, <2>1, <2>2 DEF Far
  <2>5. Staged' /\ Away'
    BY <2>2, <2>4, WholeIsThere DEF Staged, Away
  <2> QED
    BY <2>3, <2>5 DEF BackInv
<1>5. CASE restore_fails
  <2>1. /\ root' = olds[job.new] /\ olds' = Restrict(olds, DOMAIN olds \ {job.new})
        /\ default' = Moved(default, <<"old", job.new>>, At)
        /\ Plain(todo')
    BY <1>5, PlainShort DEF restore_fails, Goes
  <2>2. Whole(root')
    BY <1>3, <2>1 DEF BackInv, Kept
  <2>3. DOMAIN olds' = DOMAIN olds \ {job.new} /\ \A t \in DOMAIN olds' : olds'[t] = olds[t]
    BY <2>1 DEF Restrict
  <2>4. Kept'
    BY <1>1, <2>3 DEF BackInv, Kept
  <2>5. Rooted'
    BY <2>1, <2>2, <2>3 DEF BackInv, Rooted, Moved
  <2>6. Staged' /\ Away'
    BY <2>1, <2>2, WholeIsThere DEF Staged, Away
  <2> QED
    BY <2>4, <2>5, <2>6 DEF BackInv
<1> QED
  BY <1>4, <1>5

\* The default subvolume moves to an @ that is there.
LEMMA DefaultStep ==
    ASSUME BackInv, set_default
    PROVE  BackInv'
<1>1. UNCHANGED <<root, olds, points, harm>> /\ default' = At /\ todo # <<>> /\ todo' = Tail(todo)
      /\ Head(todo)[1] = "default" /\ Step("default")
  BY DEF set_default, Step, Goes, DriveOnly
<1>2. PICK s \in DOMAIN points, k \in 4..7 : Far(s, k)
  BY <1>1, WhichStep DEF BackInv, Exchanging
<1>3. k = 6 /\ todo' = Back(s, 7) /\ Whole(root)
  BY <1>1, <1>2, Where DEF Far
<1>4. Kept' /\ Rooted'
  BY <1>1, <1>3 DEF BackInv, Kept, Rooted
<1>5. Far(s, 7)' /\ s \in DOMAIN points'
  BY <1>1, <1>3 DEF Far
<1>6. Staged' /\ Away'
  BY <1>1, <1>3, <1>5, WholeIsThere DEF Staged, Away
<1> QED
  BY <1>4, <1>6 DEF BackInv

\* What is kept from apt is written to the new @.
LEMMA PrefsStep ==
    ASSUME BackInv, write_prefs
    PROVE  BackInv'
<1>1. UNCHANGED <<olds, default, points, harm>> /\ todo # <<>> /\ todo' = Tail(todo)
      /\ Head(todo)[1] = "prefs" /\ Step("prefs")
  BY DEF write_prefs, Step, Goes, DriveOnly
<1>2. PICK s \in DOMAIN points, k \in 4..7 : Far(s, k)
  BY <1>1, WhichStep DEF BackInv, Exchanging
<1>3. k = 7 /\ todo' = Back(s, 8) /\ Whole(root)
  BY <1>1, <1>2, Where DEF Far
<1>4. Whole(root')
  <2>1. PICK pins, kept : root' = [root EXCEPT !.pins = pins, !.kept = kept]
    BY Zenon DEF write_prefs
  <2> QED
    BY <1>3, <2>1 DEF Whole
<1>5. Kept' /\ Rooted'
  BY <1>1, <1>4 DEF BackInv, Kept, Rooted
<1>6. Staged' /\ Away'
  BY <1>3, <1>4, BackEnds, WholeIsThere DEF Staged, Away
<1> QED
  BY <1>5, <1>6 DEF BackInv

\* Of what was put aside, the default subvolume stays.
LEMMA OldsStep ==
    ASSUME BackInv, delete_olds
    PROVE  BackInv'
<1>1. UNCHANGED <<root, default, points, harm>> /\ todo # <<>> /\ todo' = Tail(todo)
      /\ Head(todo)[1] \notin Exchanging
  BY DEF delete_olds, Step, Goes, DriveOnly, Exchanging
<1>2. /\ DOMAIN olds' = {t \in DOMAIN olds : default = <<"old", t>>}
      /\ \A t \in DOMAIN olds' : olds'[t] = olds[t]
  BY DEF delete_olds, Restrict
<1>3. Kept' /\ Rooted'
  BY <1>1, <1>2 DEF BackInv, Kept, Rooted
<1>4. Staged' /\ Away'
  BY <1>1, Onward DEF BackInv
<1> QED
  BY <1>3, <1>4 DEF BackInv

\* A btrfs call fails: the drive is as it was.
LEMMA FailStep ==
    ASSUME BackInv, StepFails
    PROVE  BackInv'
<1>1. UNCHANGED <<root, olds, default, points>> /\ harm \subseteq harm' /\ todo # <<>>
      /\ Head(todo)[1] \in {"snapshot", "copy", "default", "unboot", "unsnap", "recopy"}
      /\ ~Step("restore")
      /\ (todo' = <<>> \/ todo' = Tail(todo))
  BY DEF StepFails, Step, Harms, Goes
<1>2. Kept' /\ Rooted'
  BY <1>1 DEF BackInv, Kept, Rooted
<1>3. CASE todo' = <<>>
  <2>1. Staged' /\ Away'
    BY <1>1, <1>3, PlainShort, Anew DEF BackInv
  <2> QED
    BY <1>2, <2>1 DEF BackInv
<1>4. CASE todo' = Tail(todo) /\ Head(todo)[1] \notin Exchanging
  <2>1. Staged' /\ Away'
    BY <1>1, <1>4, Onward DEF BackInv
  <2> QED
    BY <1>2, <2>1 DEF BackInv
<1>5. CASE todo' = Tail(todo) /\ Head(todo)[1] \in Exchanging
  <2>1. PICK s \in DOMAIN points, k \in 4..7 : Far(s, k)
    BY <1>1, <1>5, WhichStep DEF BackInv
  <2>2. k = 6 /\ todo' = Back(s, 7) /\ Whole(root)
    BY <1>1, <1>5, <2>1, Where DEF Far, Step, Exchanging
  <2>3. Far(s, 7)' /\ s \in DOMAIN points'
    BY <1>1, <2>2 DEF Far
  <2>4. Staged' /\ Away'
    BY <1>1, <2>2, <2>3, WholeIsThere DEF Staged, Away
  <2> QED
    BY <1>2, <2>4 DEF BackInv
<1> QED
  BY <1>1, <1>3, <1>4, <1>5

\* Nothing on the drive changes, and a command begins or there is none.
LEMMA NothingWritten ==
    ASSUME BackInv, UNCHANGED <<root, olds, default, points>>, harm \subseteq harm', Plain(todo'), ~Step("restore")
    PROVE  BackInv'
<1>1. Kept' /\ Rooted'
  BY DEF BackInv, Kept, Rooted
<1>2. Staged' /\ Away'
  BY Anew DEF BackInv
<1> QED
  BY <1>1, <1>2 DEF BackInv

\* Going back begins.
LEMMA RollbackStep ==
    ASSUME BackInv, NEW s \in DOMAIN points, cmd_rollback(s)
    PROVE  BackInv'
<1>1. UNCHANGED <<root, olds, default, points, harm>> /\ ~Step("restore") /\ todo' = GoBackSteps(s)
  BY DEF cmd_rollback, Elsewhere, Starts, Idle, Step
<1>2. Kept' /\ Rooted'
  BY <1>1 DEF BackInv, Kept, Rooted
<1>3. PICK k \in {1, 4} : todo' = Back(s, k)
  BY <1>1, BackBegins
<1>4. Far(s, k)' /\ k \in 1..7 /\ s \in DOMAIN points'
  BY <1>1, <1>3 DEF Far
<1>5. Staged'
  BY <1>4 DEF Staged
<1>6. Away'
  BY <1>1, Present DEF BackInv, Away
<1> QED
  BY <1>2, <1>5, <1>6 DEF BackInv

\* What the package hooks and the start of the system begin is plain.
LEMMA BeginsPlain ==
    ASSUME BackInv
    PROVE  /\ Plain(Take \o <<<<"prune", 0>>, <<"entries", 0>>>>)
           /\ \A src \in Sources : Plain(before_changes(src))
           /\ \A s : Plain(Deletes(s) \o <<<<"entries", 0>>>>)
           /\ Plain(BootSteps)
<1>1. Plain(Take \o <<<<"prune", 0>>, <<"entries", 0>>>>)
  BY PlainShort, PlainConcat
<1>2. ASSUME NEW src \in Sources PROVE Plain(before_changes(src))
  BY <1>1, PlainShort DEF before_changes
<1>3. ASSUME NEW s PROVE Plain(Deletes(s) \o <<<<"entries", 0>>>>)
  BY PlainShort, PlainConcat
<1>4. Plain(CleanUp)
  <2>1. Renewed \subseteq DOMAIN points
    BY DEF Renewed
  <2>2. IsFiniteSet(Renewed)
    BY <2>1, FS_Subset DEF BackInv, Kept
  <2>3. Plain(ForEach(Renewed, "unboot", "recopy"))
    BY <2>2, PlainForEach DEF Exchanging
  <2>4. Plain(<<<<"olds", 0>>>>) /\ Plain(<<<<"mark", running[2]>>>>)
    BY PlainShort
  <2>5. Plain(<<<<"olds", 0>>>> \o ForEach(Renewed, "unboot", "recopy"))
    BY <2>3, <2>4, PlainConcat
  <2> QED
    BY <2>4, <2>5 DEF CleanUp
<1>5. Plain(<<<<"entries", 0>>>>)
  BY PlainShort
<1>6. Plain(BootSteps)
  BY <1>4, <1>5, PlainConcat DEF BootSteps
<1> QED
  BY <1>1, <1>2, <1>3, <1>6

LEMMA CommandStep ==
    ASSUME BackInv, Command
    PROVE  BackInv'
<1>1. CASE \E s \in DOMAIN points : cmd_rollback(s)
  BY <1>1, RollbackStep
<1>2. ASSUME UNCHANGED <<root, olds, default, points>>, harm \subseteq harm', todo = <<>>, Plain(todo')
      PROVE  BackInv'
  BY <1>2, NothingWritten DEF Step
<1>3. CASE cmd_boot
  BY <1>2, <1>3, BeginsPlain DEF cmd_boot, Starts, Elsewhere
<1>4. ASSUME NEW kind, cmd_create(kind) PROVE BackInv'
  BY <1>2, <1>4, BeginsPlain DEF cmd_create, Starts, Elsewhere, Idle
<1>5. ASSUME NEW P, cmd_pre_offline(P) PROVE BackInv'
  <2>1. Plain(before_changes("update"))
    BY BeginsPlain DEF Sources
  <2> QED
    BY <1>2, <1>5, <2>1 DEF cmd_pre_offline, Starts, Elsewhere, Idle
<1>6. ASSUME NEW s, cmd_delete(s) PROVE BackInv'
  BY <1>2, <1>6, BeginsPlain DEF cmd_delete, Starts, Harms, drive, Idle
<1>7. ASSUME NEW P, NEW v, NEW k, NEW src \in Sources, cmd_apt_hook(P, v, k, src) PROVE BackInv'
  <2>1. Plain(before_changes(src))
    BY BeginsPlain
  <2> QED
    BY <1>2, <1>7, <2>1 DEF cmd_apt_hook, Starts, Elsewhere, Idle
<1> QED
  BY <1>1, <1>3, <1>4, <1>5, <1>6, <1>7 DEF Command

\* dpkg changes the system that runs into another system, also in the middle
\* of going back.
LEMMA DpkgStep ==
    ASSUME BackInv, Dpkg
    PROVE  BackInv'
<1>1. UNCHANGED <<default, points, harm>>
  BY DEF Dpkg
<1>2. /\ root' = root \/ Whole(root')
      /\ DOMAIN olds' = DOMAIN olds
      /\ \A t \in DOMAIN olds' : Whole(olds'[t])
  <2>1. CASE running = At
    <3>1. root' = After(root) /\ olds' = olds
      BY <2>1 DEF Dpkg
    <3> QED
      BY <3>1, AfterWhole DEF BackInv, Kept, Rooted
  <2>2. CASE running # At
    <3>1. root' = root /\ olds' = [olds EXCEPT ![running[2]] = After(olds[running[2]])]
      BY <2>2 DEF Dpkg
    <3>2. ASSUME NEW t \in DOMAIN olds PROVE Whole(After(olds[t]))
      BY <3>2, AfterWhole DEF BackInv, Kept
    <3> QED
      BY <3>1, <3>2 DEF BackInv, Kept
  <2> QED
    BY <2>1, <2>2
<1>3. Kept' /\ Rooted'
  BY <1>1, <1>2 DEF BackInv, Kept, Rooted
<1>4. CASE apt.kernel = "same"
  <2>1. UNCHANGED <<job, todo>>
    BY <1>4 DEF Dpkg
  <2>2. Away'
    BY <1>1, <1>2, <2>1, WholeIsThere DEF BackInv, Away
  <2>3. CASE Plain(todo)
    BY <1>3, <2>1, <2>2, <2>3 DEF BackInv, Staged
  <2>4. ASSUME NEW s \in DOMAIN points, NEW k \in 1..7, Far(s, k) PROVE BackInv'
    <3>1. Far(s, k)' /\ s \in DOMAIN points'
      BY <1>1, <1>2, <2>1, <2>4 DEF Far
    <3> QED
      BY <1>3, <2>2, <3>1 DEF BackInv, Staged
  <2> QED
    BY <2>3, <2>4 DEF BackInv, Staged
<1>5. CASE apt.kernel # "same"
  <2>1. todo = <<>> /\ Plain(todo') /\ ~Step("restore")
    BY <1>5, PlainShort DEF Dpkg, Idle, Starts, Step
  <2>2. root # NoSys \/ "cut" \in harm
    BY <2>1, Present DEF BackInv
  <2>3. Staged' /\ Away'
    BY <1>1, <1>2, <2>1, <2>2, WholeIsThere DEF Staged, Away
  <2> QED
    BY <1>3, <2>3 DEF BackInv
<1> QED
  BY <1>4, <1>5

\* Time, the archive, the power, the boot menu.
LEMMA AroundStep ==
    ASSUME BackInv, Around
    PROVE  BackInv'
<1>1. CASE TimePasses
  <2>1. UNCHANGED <<root, olds, default, harm, todo>> /\ todo = <<>> /\ Plain(todo') /\ ~Step("restore")
    BY <1>1, PlainShort DEF TimePasses, Step
  <2>2. SameSystems
    BY <1>1 DEF TimePasses, SameSystems, BackInv, Kept
  <2>3. Kept'
    BY <2>1, <2>2, KeptStill DEF BackInv
  <2>4. Rooted'
    BY <2>1 DEF BackInv, Rooted
  <2>5. Staged' /\ Away'
    BY <2>1, Anew DEF BackInv
  <2> QED
    BY <2>3, <2>4, <2>5 DEF BackInv
<1>2. CASE PowerCut
  <2>1. UNCHANGED <<root, olds, default, points>> /\ "cut" \in harm' /\ Plain(todo')
    BY <1>2, PlainShort DEF PowerCut, Harms, drive
  <2>2. Kept' /\ Rooted'
    BY <2>1 DEF BackInv, Kept, Rooted
  <2>3. Staged' /\ Away'
    BY <2>1 DEF Staged, Away
  <2> QED
    BY <2>2, <2>3 DEF BackInv
<1>3. CASE Release \/ Restart \/ StartSystem
  <2>1. UNCHANGED <<root, olds, default, points, harm, job, todo>>
    BY <1>3 DEF Release, Restart, StartSystem, drive
  <2> QED
    BY <2>1 DEF BackInv, Kept, Rooted, Staged, Far, Away
<1>4. ASSUME NEW s \in menu, StartPoint(s) PROVE BackInv'
  <2>1. UNCHANGED <<root, olds, default, harm, job, todo>>
    BY <1>4 DEF StartPoint
  <2>2. SameSystems /\ DOMAIN points' = DOMAIN points
    BY <1>4 DEF StartPoint, SameSystems, BackInv, Kept
  <2>3. Kept'
    BY <2>1, <2>2, KeptStill DEF BackInv
  <2>4. Rooted' /\ Staged' /\ Away'
    BY <2>1, <2>2 DEF BackInv, Rooted, Staged, Far, Away
  <2> QED
    BY <2>3, <2>4 DEF BackInv
<1> QED
  BY <1>1, <1>2, <1>3, <1>4 DEF Around

-----------------------------------------------------------------------------
(* The theorems.                                                             *)

\* The drive and how far going back is agree at every step.
THEOREM BackInvariance == Spec => []BackInv
<1>1. Init => BackInv
  <2> SUFFICES ASSUME Init PROVE BackInv
    OBVIOUS
  <2>1. Whole(root)
    BY DEF Init, Whole
  <2>2. Kept
    BY FS_EmptySet DEF Init, Kept
  <2>3. Rooted
    BY <2>1 DEF Init, Rooted
  <2>4. Staged /\ Away
    BY <2>1, PlainShort, WholeIsThere, Zenon DEF Init, Staged, Away
  <2> QED
    BY <2>2, <2>3, <2>4 DEF BackInv
<1>2. BackInv /\ [Next]_vars => BackInv'
  <2> SUFFICES ASSUME BackInv, [Next]_vars PROVE BackInv'
    OBVIOUS
  <2>1. CASE Command
    BY <2>1, CommandStep
  <2>2. CASE Work
    BY <2>2, PointStep, MenuStep, SnapshotStep, PruneStep, RenameStep, RestoreStep, DefaultStep,
       PrefsStep, OldsStep, FailStep DEF Work
  <2>3. CASE Dpkg
    BY <2>3, DpkgStep
  <2>4. CASE Around
    BY <2>4, AroundStep
  <2>5. CASE UNCHANGED vars
    BY <2>5 DEF vars, BackInv, Kept, Rooted, Staged, Far, Away
  <2> QED
    BY <2>1, <2>2, <2>3, <2>4, <2>5 DEF Next
<1> QED
  BY <1>1, <1>2, PTL DEF Spec

\* Whichever step of whichever command power is lost at, the default subvolume
\* is a whole system; and @ is there between commands unless power was lost.
THEOREM SystemThereTheorem == Spec => []SystemThere
<1>1. BackInv => SystemThere
  <2> SUFFICES ASSUME BackInv PROVE SystemThere
    OBVIOUS
  <2>1. default[1] # "boot"
    BY DEF BackInv, Rooted, At
  <2>2. Sys(default) # NoSys
    <3>1. CASE default = At /\ Whole(root)
      <4>1. Sys(default) = root
        BY <3>1 DEF Sys, At
      <4> QED
        BY <3>1, <4>1, WholeIsThere
    <3>2. ASSUME NEW t \in DOMAIN olds, default = <<"old", t>> PROVE Sys(default) # NoSys
      <4>1. default # At /\ default[1] = "old" /\ default[2] = t
        BY <3>2 DEF At
      <4>2. Sys(default) = olds[t]
        BY <4>1 DEF Sys
      <4> QED
        BY <4>2, WholeIsThere DEF BackInv, Kept
    <3> QED
      BY <3>1, <3>2 DEF BackInv, Rooted
  <2>3. todo = <<>> /\ "cut" \notin harm => root # NoSys
    BY Present DEF BackInv, Step
  <2> QED
    BY <2>1, <2>2, <2>3 DEF SystemThere
<1> QED
  BY <1>1, BackInvariance, PTL
=============================================================================
