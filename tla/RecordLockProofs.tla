-------------------------- MODULE RecordLockProofs --------------------------
(***************************************************************************)
(* NoConflict, WillBeRemoved and GivenUpByOwner for any number of          *)
(* programs, tasks, descriptors and requests.  NoConflict is inductive     *)
(* together with the types.  For WillBeRemoved the invariant adds that the *)
(* families of a program are disjoint lists without repetition, and that   *)
(* the family of a descriptor through which a task polls already has its   *)
(* fd_Cleanup, if the task is the only one of its program.                 *)
(***************************************************************************)
EXTENDS RecordLock, SequenceTheorems, TLAPS

RegionType == [owner : Tasks, start : Int, stop : Int, shared : BOOLEAN]
PollType == [slot : Slots, request : Requests]

TypeInv ==
    /\ family \in [Programs -> SUBSET Seq(Slots)]
    /\ cleanup \in [Programs -> [Slots -> BOOLEAN]]
    /\ locked \in [Programs -> [Slots -> BOOLEAN]]
    /\ regions \in SUBSET RegionType
    /\ polling \in [Tasks -> PollType \cup {NoRequest}]

\* The lists of aliases: not empty, without repetition, disjoint.
Proper(F) ==
    /\ \A c \in F : c # <<>> /\ \A i, j \in 1..Len(c) : c[i] = c[j] => i = j
    /\ \A c, e \in F : c # e => Range(c) \cap Range(e) = {}

FamiliesProper == \A p \in Programs : Proper(family[p])

PollersRemembered ==
    \A t \in Tasks : polling[t] # NoRequest =>
        \E c \in family[Program[t]] : polling[t].slot \in Range(c) /\ (Alone(t) => cleanup[Program[t]][c[1]])

Inv == TypeInv /\ FamiliesProper /\ PollersRemembered /\ NoConflict /\ WillBeRemoved

-----------------------------------------------------------------------------
(* Lists *)

\* What a list without repetition is after one entry was removed.
LEMMA UnlinkAliasLemma ==
    ASSUME NEW c \in Seq(Slots), NEW i \in 1..Len(c), Len(c) > 1,
           \A k, j \in 1..Len(c) : c[k] = c[j] => k = j
    PROVE  /\ UnlinkAlias(c, i) \in Seq(Slots) /\ UnlinkAlias(c, i) # <<>>
           /\ \A k, j \in 1..Len(UnlinkAlias(c, i)) : UnlinkAlias(c, i)[k] = UnlinkAlias(c, i)[j] => k = j
           /\ Range(UnlinkAlias(c, i)) \subseteq Range(c)
           /\ UnlinkAlias(c, i)[1] = IF i = 1 THEN c[2] ELSE c[1]
<1> DEFINE r == UnlinkAlias(c, i)
<1> DEFINE a == SubSeq(c, 1, i - 1)
           b == SubSeq(c, i + 1, Len(c))
           h(k) == IF k < i THEN k ELSE k + 1
<1>0. Len(c) \in Nat /\ i \in Nat /\ \A k \in 1..Len(c) : c[k] \in Slots
  OBVIOUS
<1>a. a \in Seq(Slots) /\ Len(a) = i - 1 /\ \A k \in 1..(i - 1) : a[k] = c[k]
  BY <1>0, SubSeqProperties
<1>b. b \in Seq(Slots) /\ Len(b) = Len(c) - i /\ \A k \in 1..(Len(c) - i) : b[k] = c[i + k]
  <2>1. \A k \in (i + 1)..Len(c) : c[k] \in Slots
    BY <1>0
  <2>2. /\ b \in Seq(Slots)
        /\ Len(b) = IF i + 1 <= Len(c) THEN Len(c) - (i + 1) + 1 ELSE 0
        /\ \A k \in 1..(Len(c) - (i + 1) + 1) : b[k] = c[i + 1 + k - 1]
    BY <1>0, <2>1, SubSeqProperties
  <2> QED BY <1>0, <2>2
<1>r. r = a \o b
  BY DEF UnlinkAlias
<1> HIDE DEF a, b, r
<1>1. r \in Seq(Slots) /\ Len(r) = Len(c) - 1
  BY <1>0, <1>a, <1>b, <1>r, ConcatProperties
<1>2. \A k \in 1..Len(r) : r[k] = c[h(k)] /\ h(k) \in 1..Len(c)
  <2> SUFFICES ASSUME NEW k \in 1..Len(r) PROVE r[k] = c[h(k)] /\ h(k) \in 1..Len(c)
    OBVIOUS
  <2>1. r[k] = IF k <= Len(a) THEN a[k] ELSE b[k - Len(a)]
    BY <1>0, <1>1, <1>a, <1>b, <1>r, ConcatProperties, SMTT(30)
  <2>2. CASE k < i
    BY <2>1, <2>2, <1>0, <1>1, <1>a
  <2>3. CASE ~(k < i)
    <3>1. k - (i - 1) \in 1..(Len(c) - i) /\ i + (k - (i - 1)) = k + 1
      BY <2>3, <1>0, <1>1
    <3>2. r[k] = b[k - (i - 1)]
      BY <2>1, <2>3, <1>0, <1>1, <1>a
    <3>3. b[k - (i - 1)] = c[k + 1]
      BY <3>1, <1>b, Zenon
    <3> QED BY <3>2, <3>3, <2>3, <1>0, <1>1
  <2> QED BY <2>2, <2>3
<1>3. Range(r) \subseteq Range(c)
  <2> HIDE DEF h
  <2> QED BY <1>0, <1>1, <1>2 DEF Range
<1>4. \A k, j \in 1..Len(r) : r[k] = r[j] => k = j
  <2> SUFFICES ASSUME NEW k \in 1..Len(r), NEW j \in 1..Len(r), r[k] = r[j] PROVE k = j
    OBVIOUS
  <2>1. h(k) = h(j)
    <3>1. c[h(k)] = c[h(j)] /\ h(k) \in 1..Len(c) /\ h(j) \in 1..Len(c)
      BY <1>2
    <3> HIDE DEF h
    <3> QED BY <3>1
  <2> QED BY <2>1, <1>0, <1>1
<1>5. r # <<>> /\ r[1] = IF i = 1 THEN c[2] ELSE c[1]
  BY <1>0, <1>1, <1>2
<1> QED BY <1>1, <1>3, <1>4, <1>5 DEF r

\* What a list without repetition is after a new entry was put behind its head.
LEMMA LinkAliasLemma ==
    ASSUME NEW c \in Seq(Slots), c # <<>>, NEW d \in Slots, d \notin Range(c),
           \A k, j \in 1..Len(c) : c[k] = c[j] => k = j
    PROVE  /\ LinkAlias(c, d) \in Seq(Slots) /\ LinkAlias(c, d) # <<>>
           /\ \A k, j \in 1..Len(LinkAlias(c, d)) :
                 LinkAlias(c, d)[k] = LinkAlias(c, d)[j] => k = j
           /\ Range(LinkAlias(c, d)) \subseteq Range(c) \cup {d}
           /\ LinkAlias(c, d)[1] = c[1]
<1> DEFINE r == LinkAlias(c, d)
<1>0. Len(c) \in Nat \ {0}
  OBVIOUS
<1> DEFINE a == SubSeq(c, 1, 1) \o <<d>>
           b == SubSeq(c, 2, Len(c))
<1>a. a \in Seq(Slots) /\ Len(a) = 2 /\ a[1] = c[1] /\ a[2] = d
  <2>1. SubSeq(c, 1, 1) \in Seq(Slots) /\ Len(SubSeq(c, 1, 1)) = 1 /\ SubSeq(c, 1, 1)[1] = c[1]
    BY <1>0, SubSeqProperties
  <2>2. <<d>> \in Seq(Slots) /\ Len(<<d>>) = 1 /\ <<d>>[1] = d
    OBVIOUS
  <2> QED BY <2>1, <2>2, ConcatProperties
<1>b. b \in Seq(Slots) /\ Len(b) = Len(c) - 1 /\ \A k \in 1..(Len(c) - 1) : b[k] = c[k + 1]
  <2>1. \A k \in 2..Len(c) : c[k] \in Slots
    BY <1>0
  <2>2. /\ b \in Seq(Slots)
        /\ Len(b) = IF 2 <= Len(c) THEN Len(c) - 2 + 1 ELSE 0
        /\ \A k \in 1..(Len(c) - 2 + 1) : b[k] = c[2 + k - 1]
    BY <1>0, <2>1, SubSeqProperties
  <2> HIDE DEF a, b, r
  <2>3. Len(b) = Len(c) - 1
    <3>1. Len(b) = IF 2 <= Len(c) THEN Len(c) - 2 + 1 ELSE 0
      BY <2>2
    <3>2. \A n \in Nat \ {0} : (IF 2 <= n THEN n - 2 + 1 ELSE 0) = n - 1
      OBVIOUS
    <3> QED BY <1>0, <3>1, <3>2, Zenon
  <2>4. \A k \in 1..(Len(c) - 1) : b[k] = c[k + 1]
    <3> SUFFICES ASSUME NEW k \in 1..(Len(c) - 1) PROVE b[k] = c[k + 1]
      OBVIOUS
    <3>1. 2 + k - 1 = k + 1 /\ k \in 1..(Len(c) - 2 + 1)
      BY <1>0
    <3> QED BY <3>1, <2>2
  <2> QED BY <2>2, <2>3, <2>4
<1>r. r = a \o b
  BY DEF LinkAlias
<1> HIDE DEF a, b, r
<1>1. r \in Seq(Slots) /\ Len(r) = Len(c) + 1
  <2>1. r \in Seq(Slots) /\ Len(r) = Len(a) + Len(b)
    <3>1. a \in Seq(Slots) /\ b \in Seq(Slots)
      BY <1>a, <1>b
    <3> QED BY <3>1, <1>r, ConcatProperties
  <2> QED BY <2>1, <1>0, <1>a, <1>b
<1>2. \A k \in 1..Len(r) : r[k] = IF k = 1 THEN c[1] ELSE IF k = 2 THEN d ELSE c[k - 1]
  <2> SUFFICES ASSUME NEW k \in 1..Len(r)
               PROVE r[k] = IF k = 1 THEN c[1] ELSE IF k = 2 THEN d ELSE c[k - 1]
    OBVIOUS
  <2>1. r[k] = IF k <= 2 THEN a[k] ELSE b[k - 2]
    BY <1>0, <1>1, <1>a, <1>b, <1>r, ConcatProperties
  <2>2. CASE k <= 2
    BY <2>1, <2>2, <1>0, <1>1, <1>a
  <2>3. CASE k > 2
    <3>1. k - 2 \in 1..(Len(c) - 1) /\ (k - 2) + 1 = k - 1
      BY <2>3, <1>0, <1>1
    <3>2. b[k - 2] = c[k - 1]
      BY <3>1, <1>b
    <3> QED BY <2>1, <2>3, <3>2, <1>1
  <2> QED BY <2>2, <2>3, <1>1
<1>d. \A k \in 1..Len(c) : c[k] # d
  BY DEF Range
<1>3. Range(r) \subseteq Range(c) \cup {d}
  <2> SUFFICES ASSUME NEW k \in 1..Len(r) PROVE r[k] \in Range(c) \cup {d}
    BY <1>1 DEF Range
  <2>1. r[k] = d \/ \E n \in 1..Len(c) : r[k] = c[n]
    <3>1. (k - 1 \in 1..Len(c) \/ k = 1 \/ k = 2) /\ 1 \in 1..Len(c)
      BY <1>0, <1>1
    <3> QED BY <3>1, <1>2
  <2> QED BY <2>1 DEF Range
<1>4. \A k, j \in 1..Len(r) : r[k] = r[j] => k = j
  <2> SUFFICES ASSUME NEW k \in 1..Len(r), NEW j \in 1..Len(r), r[k] = r[j] PROVE k = j
    OBVIOUS
  <2> DEFINE h(n) == IF n = 1 THEN 1 ELSE n - 1
  <2>1. \A n \in 1..Len(r) : n # 2 => r[n] = c[h(n)] /\ h(n) \in 1..Len(c)
    BY <1>0, <1>1, <1>2
  <2>2. \A n \in 1..Len(r) : n = 2 <=> r[n] = d
    <3> HIDE DEF h
    <3> SUFFICES ASSUME NEW n \in 1..Len(r) PROVE n = 2 <=> r[n] = d
      OBVIOUS
    <3>1. n # 2 => r[n] # d
      BY <2>1, <1>d
    <3>2. n = 2 => r[n] = d
      BY <1>2
    <3> QED BY <3>1, <3>2
  <2>3. CASE k # 2 /\ j # 2
    <3>1. h(k) = h(j)
      <4> HIDE DEF h
      <4> QED BY <2>1, <2>3
    <3> QED BY <3>1, <2>3, <1>0, <1>1
  <2> QED BY <2>2, <2>3
<1>5. r # <<>> /\ r[1] = c[1]
  BY <1>1, <1>2, <1>0
<1> QED BY <1>1, <1>3, <1>4, <1>5 DEF r

-----------------------------------------------------------------------------
(* The descriptor table *)

Flags == [Programs -> [Slots -> BOOLEAN]]

\* Put changes a field of the descriptors in S of one program.
LEMMA PutLemma ==
    ASSUME NEW f \in Flags, NEW p \in Programs, NEW S, NEW v \in BOOLEAN
    PROVE  /\ Put(f, p, S, v) \in Flags
           /\ \A q \in Programs : q # p => Put(f, p, S, v)[q] = f[q]
           /\ \A s \in Slots : s \in S => Put(f, p, S, v)[p][s] = v
           /\ \A s \in Slots : s \notin S => Put(f, p, S, v)[p][s] = f[p][s]
<1> DEFINE g == [s \in Slots |-> IF s \in S THEN v ELSE f[p][s]]
<1>1. f[p] \in [Slots -> BOOLEAN]
  BY DEF Flags
<1>2. g \in [Slots -> BOOLEAN]
  BY <1>1
<1>3. Put(f, p, S, v) = [f EXCEPT ![p] = g]
  BY DEF Put
<1>4. \A s \in Slots : (s \in S => g[s] = v) /\ (s \notin S => g[s] = f[p][s])
  OBVIOUS
<1> HIDE DEF g
<1> QED BY <1>2, <1>3, <1>4 DEF Flags

\* Clear is Put with the value FALSE.
LEMMA ClearLemma ==
    ASSUME NEW f \in Flags, NEW p \in Programs, NEW S
    PROVE  /\ Clear(f, p, S) \in Flags
           /\ \A q \in Programs : q # p => Clear(f, p, S)[q] = f[q]
           /\ \A s \in Slots : s \in S => ~Clear(f, p, S)[p][s]
           /\ \A s \in Slots : s \notin S => Clear(f, p, S)[p][s] = f[p][s]
<1> DEFINE v == FALSE
<1>1. v \in BOOLEAN /\ Clear(f, p, S) = Put(f, p, S, v)
  BY DEF Clear
<1>v. ~v
  OBVIOUS
<1> HIDE DEF v
<1>2. /\ Clear(f, p, S) \in Flags
      /\ \A q \in Programs : q # p => Clear(f, p, S)[q] = f[q]
      /\ \A s \in Slots : s \in S => Clear(f, p, S)[p][s] = v
      /\ \A s \in Slots : s \notin S => Clear(f, p, S)[p][s] = f[p][s]
  BY <1>1, PutLemma
<1>3. \A s \in Slots : s \in S => ~Clear(f, p, S)[p][s]
  BY <1>2, <1>v
<1> QED BY <1>2, <1>3

\* Set is Put with the value TRUE.
LEMMA SetLemma ==
    ASSUME NEW f \in Flags, NEW p \in Programs, NEW S
    PROVE  /\ Set(f, p, S) \in Flags
           /\ \A q \in Programs : q # p => Set(f, p, S)[q] = f[q]
           /\ \A s \in Slots : s \in S => Set(f, p, S)[p][s]
           /\ \A s \in Slots : s \notin S => Set(f, p, S)[p][s] = f[p][s]
<1> DEFINE v == TRUE
<1>1. v \in BOOLEAN /\ Set(f, p, S) = Put(f, p, S, v)
  BY DEF Set
<1>v. v
  OBVIOUS
<1> HIDE DEF v
<1>2. /\ Set(f, p, S) \in Flags
      /\ \A q \in Programs : q # p => Set(f, p, S)[q] = f[q]
      /\ \A s \in Slots : s \in S => Set(f, p, S)[p][s] = v
      /\ \A s \in Slots : s \notin S => Set(f, p, S)[p][s] = f[p][s]
  BY <1>1, PutLemma
<1>3. \A s \in Slots : s \in S => Set(f, p, S)[p][s]
  BY <1>2, <1>v, Zenon
<1> QED BY <1>2, <1>3

\* Every descriptor in use is in exactly one family, whose first one is in use.
LEMMA FamilyLemma ==
    ASSUME TypeInv, FamiliesProper, NEW p \in Programs
    PROVE  /\ \A s \in InUse(p) : FamilyOf(p, s) \in family[p] /\ s \in Range(FamilyOf(p, s))
           /\ \A c \in family[p] : /\ c \in Seq(Slots) /\ c # <<>> /\ Len(c) \in Nat /\ Len(c) >= 1
                                   /\ c[1] \in Slots /\ c[1] \in Range(c) /\ Head(c) = c[1]
                                   /\ Range(c) \subseteq Slots /\ Range(c) \subseteq InUse(p)
           /\ \A c, e \in family[p] : c # e => Range(c) \cap Range(e) = {}
           /\ \A c \in family[p] : \A i, j \in 1..Len(c) : c[i] = c[j] => i = j
<1>1. family[p] \in SUBSET Seq(Slots) /\ Proper(family[p])
  BY DEF TypeInv, FamiliesProper
<1>2. \A s \in InUse(p) : FamilyOf(p, s) \in family[p] /\ s \in Range(FamilyOf(p, s))
  BY DEF InUse, FamilyOf
<1>3. ASSUME NEW c \in family[p]
      PROVE  /\ c \in Seq(Slots) /\ c # <<>> /\ Len(c) \in Nat /\ Len(c) >= 1
             /\ c[1] \in Slots /\ c[1] \in Range(c) /\ Head(c) = c[1]
             /\ Range(c) \subseteq Slots /\ Range(c) \subseteq InUse(p)
  <2>1. c \in Seq(Slots) /\ c # <<>>
    BY <1>1 DEF Proper
  <2>2. Len(c) \in Nat /\ Len(c) >= 1 /\ c[1] \in Slots /\ Head(c) = c[1]
    BY <2>1
  <2>3. DOMAIN c = 1..Len(c)
    BY <2>1
  <2>4. c[1] \in Range(c) /\ Range(c) \subseteq Slots
    BY <2>1, <2>2, <2>3 DEF Range
  <2>5. Range(c) \subseteq InUse(p)
    BY DEF InUse
  <2> QED BY <2>1, <2>2, <2>4, <2>5
<1> QED BY <1>1, <1>2, <1>3 DEF Proper

\* A step on the descriptors of program p that keeps all families but c0.
Kept(p, c0) ==
    /\ family' \in [Programs -> SUBSET Seq(Slots)] /\ cleanup' \in Flags /\ locked' \in Flags
    /\ Proper(family'[p])
    /\ \A q \in Programs \ {p} :
          family'[q] = family[q] /\ cleanup'[q] = cleanup[q] /\ locked'[q] = locked[q]
    /\ \A c \in family[p] \ {c0} :
          /\ c \in family'[p]
          /\ cleanup'[p][c[1]] = cleanup[p][c[1]] /\ locked'[p][c[1]] = locked[p][c[1]]

\* There is a family whose first descriptor is what the one of c0 was.
Succeeds(p, c0) ==
    \E e \in family'[p] : /\ cleanup'[p][e[1]] = cleanup[p][c0[1]]
                          /\ locked'[p][e[1]] = locked[p][c0[1]]

\* Replacing c0 by a list over the same descriptors and new ones keeps the
\* families proper.
LEMMA ReplaceLemma ==
    ASSUME TypeInv, FamiliesProper, NEW p \in Programs, NEW c0 \in family[p], NEW e \in Seq(Slots),
           e # <<>>, \A i, j \in 1..Len(e) : e[i] = e[j] => i = j,
           \A x \in Range(e) : x \in Range(c0) \/ x \notin InUse(p),
           family' = [family EXCEPT ![p] = (@ \ {c0}) \cup {e}]
    PROVE  /\ family' \in [Programs -> SUBSET Seq(Slots)] /\ Proper(family'[p])
           /\ \A q \in Programs \ {p} : family'[q] = family[q]
           /\ \A c \in family[p] \ {c0} : c \in family'[p]
           /\ e \in family'[p]
<1>1. family'[p] = (family[p] \ {c0}) \cup {e} /\ family[p] \in SUBSET Seq(Slots)
  BY DEF TypeInv
<1>2. family' \in [Programs -> SUBSET Seq(Slots)]
  BY <1>1 DEF TypeInv
<1>3. \A c \in family[p] \ {c0} : Range(c) \cap Range(e) = {}
  <2> SUFFICES ASSUME NEW c \in family[p], c # c0, NEW x \in Range(c), x \in Range(e) PROVE FALSE
    OBVIOUS
  <2>1. x \in InUse(p) /\ x \notin Range(c0)
    BY FamilyLemma
  <2> QED BY <2>1
<1>4. Proper(family'[p])
  BY <1>1, <1>3, FamilyLemma DEF Proper
<1> QED BY <1>1, <1>2, <1>4 DEF TypeInv

\* open adds a family of one.
LEMMA OpenKeeps ==
    ASSUME TypeInv, FamiliesProper, NEW t \in Tasks, NEW s \in Slots, open(t, s)
    PROVE  Kept(Program[t], <<s>>) /\ <<s>> \notin family[Program[t]]
<1> DEFINE p == Program[t]
<1>1. p \in Programs
  BY RecordLockAssumption
<1>2. s \notin InUse(p) /\ family' = [family EXCEPT ![p] = @ \cup {<<s>>}]
      /\ cleanup' = cleanup /\ locked' = locked
  BY DEF open
<1> HIDE DEF p
<1>3. <<s>> \in Seq(Slots) /\ Range(<<s>>) = {s}
  BY DEF Range
<1>4. <<s>> \notin family[p] /\ \A c \in family[p] : s \notin Range(c)
  BY <1>1, <1>2, <1>3, FamilyLemma
<1>5. family'[p] = family[p] \cup {<<s>>} /\ family' \in [Programs -> SUBSET Seq(Slots)]
  BY <1>1, <1>2, <1>3, Zenon DEF TypeInv
<1>6. Proper(family'[p])
  <2> DEFINE u == <<s>>
  <2>1. u # <<>> /\ \A k, j \in 1..Len(u) : u[k] = u[j] => k = j
    OBVIOUS
  <2>2. family'[p] = family[p] \cup {u} /\ \A c \in family[p] : Range(c) \cap Range(u) = {}
    BY <1>3, <1>4, <1>5
  <2> HIDE DEF u
  <2>3. \A c \in family[p] : c # <<>> /\ \A k, j \in 1..Len(c) : c[k] = c[j] => k = j
    BY <1>1, FamilyLemma, SMTT(30)
  <2>4. \A c, e \in family[p] : c # e => Range(c) \cap Range(e) = {}
    BY <1>1, FamilyLemma
  <2>5. \A c, e \in family'[p] : c # e => Range(c) \cap Range(e) = {}
    BY <2>2, <2>4
  <2> QED BY <2>1, <2>2, <2>3, <2>5 DEF Proper
<1> QED BY <1>1, <1>2, <1>4, <1>5, <1>6 DEF Kept, Flags, TypeInv, p

\* A duplicate changes nothing of the original.
LEMMA DuplicateKeeps ==
    ASSUME TypeInv, FamiliesProper, NEW p \in Programs, NEW s \in InUse(p), NEW d \in Slots,
           d \notin InUse(p), Duplicate(p, s, d)
    PROVE  Kept(p, FamilyOf(p, s)) /\ Succeeds(p, FamilyOf(p, s))
<1> DEFINE c0 == FamilyOf(p, s)
           e == LinkAlias(c0, d)
<1>1. c0 \in family[p] /\ c0 \in Seq(Slots) /\ c0 # <<>> /\ d \notin Range(c0)
      /\ Head(c0) = c0[1] /\ c0[1] # d /\ c0[1] \in Slots
      /\ \A i, j \in 1..Len(c0) : c0[i] = c0[j] => i = j
  BY FamilyLemma
<1>2. /\ family' = [family EXCEPT ![p] = (@ \ {c0}) \cup {e}]
      /\ locked' = Put(locked, p, {d}, locked[p][Head(c0)]) /\ cleanup' = cleanup
  BY DEF Duplicate
<1> HIDE DEF c0
<1>3. /\ e \in Seq(Slots) /\ e # <<>> /\ \A i, j \in 1..Len(e) : e[i] = e[j] => i = j
      /\ Range(e) \subseteq Range(c0) \cup {d} /\ e[1] = c0[1]
  BY <1>1, LinkAliasLemma, SMTT(30)
<1> HIDE DEF e
<1>x. \A x \in Range(e) : x \in Range(c0) \/ x \notin InUse(p)
  BY <1>3
<1>4. /\ family' \in [Programs -> SUBSET Seq(Slots)] /\ Proper(family'[p])
      /\ \A q \in Programs \ {p} : family'[q] = family[q]
      /\ \A c \in family[p] \ {c0} : c \in family'[p]
      /\ e \in family'[p]
  BY <1>1, <1>2, <1>3, <1>x, ReplaceLemma, Zenon
<1>5. locked[p][Head(c0)] \in BOOLEAN /\ locked \in Flags /\ cleanup \in Flags
  BY <1>1 DEF TypeInv, Flags
<1>6. /\ locked' \in Flags /\ \A q \in Programs : q # p => locked'[q] = locked[q]
      /\ \A x \in Slots : x # d => locked'[p][x] = locked[p][x]
  BY <1>2, <1>5, PutLemma
<1>7. \A c \in family[p] : c[1] \in Slots /\ c[1] # d
  BY FamilyLemma
<1>8. Kept(p, c0)
  BY <1>2, <1>4, <1>5, <1>6, <1>7, Zenon DEF Kept
<1>9. Succeeds(p, c0)
  <2>1. e[1] = c0[1] /\ c0[1] # d /\ c0[1] \in Slots
    BY <1>1, <1>3, <1>7
  <2>2. cleanup' = cleanup
    BY <1>2
  <2>3. locked'[p][c0[1]] = locked[p][c0[1]]
    BY <2>1, <1>6
  <2> HIDE DEF c0
  <2>4. cleanup'[p][e[1]] = cleanup[p][c0[1]] /\ locked'[p][e[1]] = locked[p][c0[1]]
    BY <2>1, <2>2, <2>3
  <2> QED BY <2>4, <1>4 DEF Succeeds
<1> QED BY <1>8, <1>9 DEF c0

\* When a descriptor with aliases is closed, the original or its successor
\* has the fields the original had.
LEMMA CloseAliasedKeeps ==
    ASSUME TypeInv, FamiliesProper, NEW p \in Programs, NEW s \in InUse(p), CloseAliased(p, s)
    PROVE  Kept(p, FamilyOf(p, s)) /\ Succeeds(p, FamilyOf(p, s))
<1> DEFINE c0 == FamilyOf(p, s)
<1>1. /\ c0 \in family[p] /\ c0 \in Seq(Slots) /\ c0[1] \in Slots /\ s \in Slots
      /\ \A i, j \in 1..Len(c0) : c0[i] = c0[j] => i = j
      /\ s \in Range(c0) /\ Range(c0) \subseteq InUse(p) /\ Range(c0) \subseteq Slots
  <2>1. c0 \in family[p] /\ s \in Range(c0)
    BY FamilyLemma
  <2> HIDE DEF c0
  <2> QED BY <2>1, FamilyLemma, SMTT(30)
<1>2. /\ Len(c0) > 1
      /\ \E i \in DOMAIN c0 :
            c0[i] = s /\ family' = [family EXCEPT ![p] = (@ \ {c0}) \cup {UnlinkAlias(c0, i)}]
      /\ cleanup' = Clear(Inherit(cleanup, p, c0, s), p, {s})
      /\ locked' = Clear(Inherit(locked, p, c0, s), p, {s})
  BY Zenon DEF CloseAliased
<1> HIDE DEF c0
<1>d. DOMAIN c0 = 1..Len(c0)
  BY <1>1
<1>3. PICK i \in 1..Len(c0) :
            c0[i] = s /\ family' = [family EXCEPT ![p] = (@ \ {c0}) \cup {UnlinkAlias(c0, i)}]
  BY <1>2, <1>d, Zenon
<1> DEFINE e == UnlinkAlias(c0, i)
<1>4. /\ e \in Seq(Slots) /\ e # <<>> /\ \A k, j \in 1..Len(e) : e[k] = e[j] => k = j
      /\ Range(e) \subseteq Range(c0) /\ e[1] = IF i = 1 THEN c0[2] ELSE c0[1]
  BY <1>1, <1>2, UnlinkAliasLemma, SMTT(30)
<1>5. family' = [family EXCEPT ![p] = (@ \ {c0}) \cup {e}]
  BY <1>3
<1> HIDE DEF e
<1>6. /\ family' \in [Programs -> SUBSET Seq(Slots)] /\ Proper(family'[p])
      /\ \A q \in Programs \ {p} : family'[q] = family[q]
      /\ \A c \in family[p] \ {c0} : c \in family'[p]
      /\ e \in family'[p]
  BY <1>1, <1>4, <1>5, ReplaceLemma, Zenon
<1>7. /\ Len(c0) \in Nat /\ 1 \in 1..Len(c0) /\ 2 \in 1..Len(c0) /\ DOMAIN c0 = 1..Len(c0)
  BY <1>1, <1>2
<1>8. /\ c0[2] \in Slots /\ c0[2] \in Range(c0) /\ c0[1] \in Range(c0) /\ c0[1] # c0[2]
      /\ (i = 1 <=> s = c0[1])
  <2>1. c0[2] \in Range(c0) /\ c0[1] \in Range(c0)
    BY <1>7 DEF Range
  <2>2. c0[1] # c0[2]
    BY <1>1, <1>7
  <2>3. i = 1 <=> s = c0[1]
    BY <1>1, <1>3, <1>7
  <2> QED BY <2>1, <2>2, <2>3, <1>1
<1>9. ASSUME NEW f \in Flags
      PROVE  /\ Clear(Inherit(f, p, c0, s), p, {s}) \in Flags
             /\ \A q \in Programs : q # p => Clear(Inherit(f, p, c0, s), p, {s})[q] = f[q]
             /\ \A x \in Slots : x \notin Range(c0) =>
                   Clear(Inherit(f, p, c0, s), p, {s})[p][x] = f[p][x]
             /\ Clear(Inherit(f, p, c0, s), p, {s})[p][e[1]] = f[p][c0[1]]
  <2> DEFINE g == Inherit(f, p, c0, s)
  <2>1. f[p][s] \in BOOLEAN
    BY <1>1 DEF Flags
  <2>2. /\ g \in Flags /\ \A q \in Programs : q # p => g[q] = f[q]
        /\ \A x \in Slots : x # c0[2] => g[p][x] = f[p][x]
        /\ s = c0[1] => g[p][c0[2]] = f[p][s]
        /\ s # c0[1] => g = f
    <3>1. CASE s = c0[1]
      <4>1. g = Put(f, p, {c0[2]}, f[p][s])
        BY <3>1 DEF Inherit
      <4> HIDE DEF g
      <4>2. /\ g \in Flags /\ \A q \in Programs : q # p => g[q] = f[q]
            /\ \A x \in Slots : x \in {c0[2]} => g[p][x] = f[p][s]
            /\ \A x \in Slots : x \notin {c0[2]} => g[p][x] = f[p][x]
        BY <4>1, <2>1, PutLemma
      <4> QED BY <3>1, <4>2, <1>8, SMTT(30)
    <3>2. CASE s # c0[1]
      BY <3>2 DEF Inherit
    <3> QED BY <3>1, <3>2
  <2> HIDE DEF g
  <2>3. /\ Clear(g, p, {s}) \in Flags
        /\ \A q \in Programs : q # p => Clear(g, p, {s})[q] = g[q]
        /\ \A x \in Slots : x \notin {s} => Clear(g, p, {s})[p][x] = g[p][x]
    BY <2>2, ClearLemma
  <2>4. \A x \in Slots : x \notin Range(c0) => Clear(g, p, {s})[p][x] = f[p][x]
    BY <2>2, <2>3, <1>1, <1>8, ZenonT(30)
  <2>5. Clear(g, p, {s})[p][e[1]] = f[p][c0[1]]
    <3>1. CASE s = c0[1]
      BY <3>1, <2>2, <2>3, <1>4, <1>8, ZenonT(30)
    <3>2. CASE s # c0[1]
      BY <3>2, <2>2, <2>3, <1>1, <1>4, <1>8, Zenon
    <3> QED BY <3>1, <3>2
  <2> QED BY <2>2, <2>3, <2>4, <2>5, Zenon DEF g
<1>10. \A c \in family[p] \ {c0} : c[1] \in Slots /\ c[1] \notin Range(c0)
  BY <1>1, FamilyLemma
<1>11. cleanup \in Flags /\ locked \in Flags
  BY DEF TypeInv, Flags
<1>12. /\ cleanup' \in Flags /\ locked' \in Flags
       /\ \A q \in Programs : q # p => cleanup'[q] = cleanup[q] /\ locked'[q] = locked[q]
       /\ \A x \in Slots : x \notin Range(c0) =>
             cleanup'[p][x] = cleanup[p][x] /\ locked'[p][x] = locked[p][x]
       /\ cleanup'[p][e[1]] = cleanup[p][c0[1]] /\ locked'[p][e[1]] = locked[p][c0[1]]
  BY <1>2, <1>9, <1>11, Zenon
<1>13. Kept(p, c0)
  BY <1>6, <1>10, <1>12 DEF Kept
<1>14. Succeeds(p, c0)
  BY <1>6, <1>12 DEF Succeeds
<1> QED BY <1>13, <1>14 DEF c0

\* Closing a family of one keeps all the others.
LEMMA CloseLastKeeps ==
    ASSUME TypeInv, FamiliesProper, NEW t \in Tasks, NEW s \in Slots, CloseLast(t, s)
    PROVE  Kept(Program[t], <<s>>)
<1> DEFINE p == Program[t]
           u == <<s>>
<1>1. p \in Programs
  BY RecordLockAssumption
<1>2. /\ u \in family[p] /\ family' = [family EXCEPT ![p] = @ \ {u}]
      /\ cleanup' = Clear(cleanup, p, {s}) /\ locked' = Clear(locked, p, {s})
  BY DEF CloseLast
<1>3. Range(u) = {s}
  BY DEF Range
<1> HIDE DEF p, u
<1>4. family'[p] = family[p] \ {u} /\ family' \in [Programs -> SUBSET Seq(Slots)]
      /\ \A q \in Programs \ {p} : family'[q] = family[q]
  BY <1>1, <1>2 DEF TypeInv
<1>5. Proper(family'[p])
  BY <1>1, <1>4 DEF FamiliesProper, Proper
<1>6. \A c \in family[p] \ {u} : c[1] \in Slots /\ c[1] \notin {s}
  BY <1>1, <1>2, <1>3, FamilyLemma
<1>7. cleanup \in Flags /\ locked \in Flags
  BY DEF TypeInv, Flags
<1>8. /\ cleanup' \in Flags /\ locked' \in Flags
      /\ \A q \in Programs : q # p => cleanup'[q] = cleanup[q] /\ locked'[q] = locked[q]
      /\ \A x \in Slots : x \notin {s} => cleanup'[p][x] = cleanup[p][x] /\ locked'[p][x] = locked[p][x]
  BY <1>1, <1>2, <1>7, ClearLemma, SMTT(30)
<1>9. Kept(p, u)
  BY <1>4, <1>5, <1>6, <1>8 DEF Kept
<1> QED BY <1>9 DEF p, u

\* fcntl sets fields and clears none: cleanup at the first of the family, if
\* there is no other task in the program.
LEMMA RememberLemma ==
    ASSUME TypeInv, FamiliesProper, NEW t \in Tasks, NEW s \in InUse(Program[t]), Remember(t, s)
    PROVE  /\ cleanup' \in Flags
           /\ \A q \in Programs, x \in Slots : cleanup[q][x] => cleanup'[q][x]
           /\ Alone(t) => cleanup'[Program[t]][FamilyOf(Program[t], s)[1]]
<1> DEFINE p == Program[t]
           h == Head(FamilyOf(p, s))
<1>1. p \in Programs
  BY RecordLockAssumption
<1>2. h \in Slots /\ s \in Slots /\ h = FamilyOf(p, s)[1]
  BY <1>1, FamilyLemma
<1>3. PICK o \in Found(t, s) : cleanup' = Set(cleanup, p, {o})
  BY Zenon DEF Remember
<1>4. o \in Slots /\ (Alone(t) => o = h)
  BY <1>2, Zenon DEF Found
<1> HIDE DEF h, p
<1>5. cleanup \in Flags
  BY DEF TypeInv, Flags
<1>6. /\ cleanup' \in Flags /\ \A q \in Programs : q # p => cleanup'[q] = cleanup[q]
      /\ \A x \in Slots : x \in {o} => cleanup'[p][x]
      /\ \A x \in Slots : x \notin {o} => cleanup'[p][x] = cleanup[p][x]
  BY <1>1, <1>3, <1>4, <1>5, SetLemma
<1>7. Alone(t) => cleanup'[p][h]
  BY <1>4, <1>6, Zenon
<1>8. \A q \in Programs, x \in Slots : cleanup[q][x] => cleanup'[q][x]
  BY <1>6, Zenon
<1> QED BY <1>2, <1>6, <1>7, <1>8, Zenon DEF p

\* And locked at all of them.
LEMMA MarkLemma ==
    ASSUME TypeInv, FamiliesProper, NEW p \in Programs, NEW s \in InUse(p), MarkAll(p, s)
    PROVE  /\ locked' \in Flags
           /\ \A q \in Programs, x \in Slots : locked[q][x] => locked'[q][x]
           /\ locked'[p][FamilyOf(p, s)[1]]
<1> DEFINE F == Range(FamilyOf(p, s))
<1>1. FamilyOf(p, s)[1] \in F /\ FamilyOf(p, s)[1] \in Slots /\ locked' = Set(locked, p, F)
  BY FamilyLemma DEF MarkAll
<1> HIDE DEF F
<1>2. locked \in Flags
  BY DEF TypeInv, Flags
<1>3. /\ locked' \in Flags /\ \A q \in Programs : q # p => locked'[q] = locked[q]
      /\ \A x \in Slots : x \in F => locked'[p][x]
      /\ \A x \in Slots : x \notin F => locked'[p][x] = locked[p][x]
  BY <1>1, <1>2, SetLemma
<1> QED BY <1>1, <1>3, SMTT(30)

-----------------------------------------------------------------------------
(* The invariant *)

\* A region that collides with none can be added.
LEMMA AddRegion ==
    ASSUME TypeInv, NoConflict, NEW g \in RegionType, ~Collides(g), regions' = regions \cup {g}
    PROVE  NoConflict' /\ regions' \in SUBSET RegionType
<1>1. regions' \in SUBSET RegionType
  BY DEF TypeInv
<1>2. ASSUME NEW h \in regions, g.owner # h.owner
      PROVE  (g.shared /\ h.shared) \/ (g.start..g.stop) \cap (h.start..h.stop) = {}
  <2>1. h \in RegionType /\ ~Colliding(g, h)
    BY DEF TypeInv, Collides
  <2>2. CASE g.shared /\ h.shared
    BY <2>2
  <2>3. CASE ~(g.shared /\ h.shared)
    <3>1. ~(g.start <= h.stop /\ h.start <= g.stop)
      BY <2>1, <2>3, <1>2 DEF Colliding, Overlap
    <3>2. g.start \in Int /\ g.stop \in Int /\ h.start \in Int /\ h.stop \in Int
      BY <2>1 DEF RegionType
    <3> QED BY <3>1, <3>2
  <2> QED BY <2>2, <2>3
<1>3. NoConflict'
  <2> SUFFICES ASSUME NEW a \in regions', NEW b \in regions', a.owner # b.owner
               PROVE  (a.shared /\ b.shared) \/ (a.start..a.stop) \cap (b.start..b.stop) = {}
    BY Zenon DEF NoConflict
  <2>1. CASE a \in regions /\ b \in regions
    BY <2>1 DEF NoConflict
  <2>2. CASE a = g /\ b \in regions
    BY <2>2, <1>2
  <2>3. CASE a \in regions /\ b = g
    <3>1. (b.shared /\ a.shared) \/ (b.start..b.stop) \cap (a.start..a.stop) = {}
      BY <2>3, <1>2
    <3> QED BY <3>1, Zenon
  <2> QED BY <2>1, <2>2, <2>3
<1> QED BY <1>1, <1>3

\* Steps on the descriptor table that leave the regions alone.
LEMMA TableStep ==
    ASSUME Inv, NEW p \in Programs, NEW c0, Kept(p, c0), polling' = polling, regions' = regions,
           c0 \notin family[p] \/ (Succeeds(p, c0) /\ Free(p, c0))
    PROVE  Inv'
<1>1. TypeInv' /\ FamiliesProper'
  BY Zenon DEF Inv, TypeInv, FamiliesProper, Kept, Flags
<1>2. PollersRemembered'
  <2> SUFFICES ASSUME NEW t \in Tasks, polling[t] # NoRequest
               PROVE  \E c \in family'[Program[t]] :
                         polling[t].slot \in Range(c) /\ (Alone(t) => cleanup'[Program[t]][c[1]])
    BY Zenon DEF PollersRemembered, Alone
  <2>1. PICK c \in family[Program[t]] : polling[t].slot \in Range(c) /\ (Alone(t) => cleanup[Program[t]][c[1]])
    BY DEF Inv, PollersRemembered
  <2>2. Program[t] \in Programs
    BY RecordLockAssumption
  <2>3. CASE Program[t] # p
    BY <2>1, <2>2, <2>3, Zenon DEF Kept
  <2>4. CASE Program[t] = p
    <3>1. c # c0
      BY <2>1, <2>4 DEF Free
    <3> QED BY <2>1, <2>4, <3>1, Zenon DEF Kept
  <2> QED BY <2>3, <2>4
<1>3. WillBeRemoved'
  <2> SUFFICES ASSUME NEW g \in regions, Alone(g.owner)
               PROVE  \E c \in family'[Program[g.owner]] :
                         cleanup'[Program[g.owner]][c[1]] /\ locked'[Program[g.owner]][c[1]]
    BY Zenon DEF WillBeRemoved, Alone
  <2> DEFINE q == Program[g.owner]
  <2>1. PICK c \in family[q] : cleanup[q][c[1]] /\ locked[q][c[1]]
    BY Zenon DEF Inv, WillBeRemoved
  <2>2. q \in Programs
    BY RecordLockAssumption DEF Inv, TypeInv, RegionType
  <2> HIDE DEF q
  <2>3. \E e \in family'[q] : cleanup'[q][e[1]] /\ locked'[q][e[1]]
    <3>1. CASE q # p
      BY <2>1, <2>2, <3>1, SMTT(30) DEF Kept
    <3>2. CASE q = p /\ c # c0
      BY <2>1, <3>2, SMTT(30) DEF Kept
    <3>3. CASE q = p /\ c = c0
      BY <2>1, <3>3 DEF Succeeds
    <3> QED BY <3>1, <3>2, <3>3
  <2> QED BY <2>3, SMTT(30) DEF q
<1> QED BY <1>1, <1>2, <1>3 DEF Inv, NoConflict

\* Steps that leave the families alone and clear no field: the families of
\* the pollers, and those of the regions there were, stay as they must be.
LEMMA FieldStep ==
    ASSUME Inv, family' = family, cleanup' \in Flags, locked' \in Flags,
           \A q \in Programs, x \in Slots : cleanup[q][x] => cleanup'[q][x],
           \A q \in Programs, x \in Slots : locked[q][x] => locked'[q][x]
    PROVE  /\ FamiliesProper'
           /\ \A t \in Tasks : polling[t] # NoRequest =>
                 \E c \in family'[Program[t]] :
                    polling[t].slot \in Range(c) /\ (Alone(t) => cleanup'[Program[t]][c[1]])
           /\ \A g \in regions : Alone(g.owner) =>
                 \E c \in family'[Program[g.owner]] :
                    cleanup'[Program[g.owner]][c[1]] /\ locked'[Program[g.owner]][c[1]]
<1>1. FamiliesProper'
  BY DEF Inv, FamiliesProper, Proper
<1>2. ASSUME NEW t \in Tasks, polling[t] # NoRequest
      PROVE  \E c \in family'[Program[t]] :
                polling[t].slot \in Range(c) /\ (Alone(t) => cleanup'[Program[t]][c[1]])
  <2>1. PICK c \in family[Program[t]] : polling[t].slot \in Range(c) /\ (Alone(t) => cleanup[Program[t]][c[1]])
    BY <1>2 DEF Inv, PollersRemembered
  <2>2. Program[t] \in Programs
    BY RecordLockAssumption
  <2>3. c[1] \in Slots
    BY <2>1, <2>2, FamilyLemma, SMTT(30) DEF Inv
  <2> QED BY <2>1, <2>2, <2>3
<1>3. ASSUME NEW g \in regions, Alone(g.owner)
      PROVE  \E c \in family'[Program[g.owner]] :
                cleanup'[Program[g.owner]][c[1]] /\ locked'[Program[g.owner]][c[1]]
  <2>1. PICK c \in family[Program[g.owner]] :
                cleanup[Program[g.owner]][c[1]] /\ locked[Program[g.owner]][c[1]]
    BY <1>3, SMTT(30) DEF Inv, WillBeRemoved
  <2>2. Program[g.owner] \in Programs
    BY RecordLockAssumption DEF Inv, TypeInv, RegionType
  <2>3. c[1] \in Slots
    BY <2>1, <2>2, FamilyLemma, SMTT(30) DEF Inv
  <2> QED BY <2>1, <2>2, <2>3, Zenon
<1> QED BY <1>1, <1>2, <1>3

\* What a request asks for is a region.
LEMMA RegionLemma ==
    ASSUME NEW t \in Tasks, NEW q \in Requests
    PROVE  Region(t, q) \in RegionType /\ Region(t, q).owner = t
<1>1. q.start \in Int /\ q.len \in Int /\ q.shared \in BOOLEAN /\ LongMax \in Int
  BY RecordLockAssumption
<1>2. FirstByte(q) \in Int /\ LastByte(q) \in Int
  BY <1>1 DEF FirstByte, LastByte
<1> QED BY <1>1, <1>2 DEF Region, RegionType

\* The last close: what is left of the regions has another owner.
LEMMA CloseLastStep ==
    ASSUME Inv, NEW t \in Tasks, NEW s \in Slots, Ready(t, s), CloseLast(t, s)
    PROVE  Inv'
<1> DEFINE p == Program[t]
           u == <<s>>
<1>1. Kept(p, u)
  BY CloseLastKeeps DEF Inv
<1>2. /\ u \in family[p] /\ polling' = polling /\ u[1] = s /\ Range(u) = {s}
      /\ regions' = IF cleanup[p][s] /\ locked[p][s] THEN regions \ Own(t) ELSE regions
  BY DEF CloseLast, Range
<1>3. p \in Programs
  BY RecordLockAssumption
<1>4. Free(p, u)
  <2>1. FamilyOf(p, s) = u
    <3>1. s \in InUse(p) /\ s \in Range(u)
      BY <1>2 DEF Ready
    <3>2. FamilyOf(p, s) \in family[p] /\ s \in Range(FamilyOf(p, s))
      BY <3>1, <1>3, FamilyLemma DEF Inv
    <3>3. FamilyOf(p, s) # u => Range(FamilyOf(p, s)) \cap Range(u) = {}
      BY <3>2, <1>2, <1>3, FamilyLemma, Zenon DEF Inv
    <3> QED BY <3>1, <3>2, <3>3
  <2> QED BY <2>1, SMTT(30) DEF Ready
<1> HIDE DEF p, u
<1>5. regions' \subseteq regions
  BY <1>2, Zenon
<1>6. TypeInv' /\ FamiliesProper' /\ NoConflict'
  <2>1. TypeInv'
    BY <1>1, <1>2, <1>5 DEF Inv, TypeInv, Kept, Flags
  <2>2. FamiliesProper'
    BY <1>1, <1>3, Zenon DEF Inv, FamiliesProper, Kept
  <2>3. NoConflict'
    BY <1>5 DEF Inv, NoConflict
  <2> QED BY <2>1, <2>2, <2>3
<1>7. PollersRemembered'
  <2> SUFFICES ASSUME NEW v \in Tasks, polling[v] # NoRequest
               PROVE  \E c \in family'[Program[v]] :
                         polling[v].slot \in Range(c) /\ (Alone(v) => cleanup'[Program[v]][c[1]])
    BY <1>2, Zenon DEF PollersRemembered, Alone
  <2>1. PICK c \in family[Program[v]] : polling[v].slot \in Range(c) /\ (Alone(v) => cleanup[Program[v]][c[1]])
    BY DEF Inv, PollersRemembered
  <2>2. Program[v] \in Programs
    BY RecordLockAssumption
  <2>3. CASE Program[v] # p
    BY <1>1, <2>1, <2>2, <2>3, Zenon DEF Kept
  <2>4. CASE Program[v] = p
    <3>1. c # u
      BY <1>4, <2>1, <2>4 DEF Free
    <3> QED BY <1>1, <2>1, <2>4, <3>1, Zenon DEF Kept
  <2> QED BY <2>3, <2>4, SMTT(30)
<1>8. WillBeRemoved'
  <2> SUFFICES ASSUME NEW g \in regions', Alone(g.owner)
               PROVE  \E c \in family'[Program[g.owner]] :
                         cleanup'[Program[g.owner]][c[1]] /\ locked'[Program[g.owner]][c[1]]
    BY Zenon DEF WillBeRemoved, Alone
  <2> DEFINE q == Program[g.owner]
  <2>1. PICK c \in family[q] : cleanup[q][c[1]] /\ locked[q][c[1]]
    BY <1>5, SMTT(30) DEF Inv, WillBeRemoved
  <2>2. q \in Programs
    BY <1>5, RecordLockAssumption DEF Inv, TypeInv, RegionType
  <2>3. q = p => c # u
    <3> SUFFICES ASSUME q = p, c = u PROVE FALSE
      OBVIOUS
    <3>1. g.owner = t
      BY DEF Alone, p
    <3>2. regions' = regions \ Own(t)
      BY <1>2, <2>1
    <3> QED BY <1>5, <3>1, <3>2 DEF Own
  <2> HIDE DEF q
  <2>4. \E e \in family'[q] : cleanup'[q][e[1]] /\ locked'[q][e[1]]
    <3>1. CASE q # p
      BY <1>1, <2>1, <2>2, <3>1, Zenon DEF Kept
    <3>2. CASE q = p
      BY <1>1, <2>1, <2>3, <3>2, Zenon DEF Kept
    <3> QED BY <3>1, <3>2, SMTT(30)
  <2> QED BY <2>4 DEF q
<1> QED BY <1>6, <1>7, <1>8 DEF Inv

\* A lock that is granted, at once or after a wait: the family through which it
\* was asked for has both fields set.
LEMMA GrantStep ==
    ASSUME Inv, NEW t \in Tasks, NEW q \in Requests, NEW s \in InUse(Program[t]),
           ~Collides(Region(t, q)), regions' = regions \cup {Region(t, q)},
           family' = family, cleanup' \in Flags, MarkAll(Program[t], s),
           \A p \in Programs, x \in Slots : cleanup[p][x] => cleanup'[p][x],
           Alone(t) => cleanup'[Program[t]][FamilyOf(Program[t], s)[1]],
           polling' \in [Tasks -> PollType \cup {NoRequest}],
           \A v \in Tasks : polling'[v] # NoRequest => polling'[v] = polling[v]
    PROVE  Inv'
<1> DEFINE p == Program[t]
           g == Region(t, q)
<1>1. p \in Programs
  BY RecordLockAssumption, Zenon
<1>2. g \in RegionType /\ g.owner = t
  BY RegionLemma, Zenon
<1>3. /\ locked' \in Flags /\ locked'[p][FamilyOf(p, s)[1]]
      /\ \A r \in Programs, x \in Slots : locked[r][x] => locked'[r][x]
  BY <1>1, MarkLemma, Zenon DEF Inv
<1>4. FamilyOf(p, s) \in family[p]
  BY <1>1, FamilyLemma, Zenon DEF Inv
<1>5. NoConflict' /\ regions' \in SUBSET RegionType
  BY <1>2, AddRegion, Zenon DEF Inv
<1> HIDE DEF g
<1>6. /\ FamiliesProper'
      /\ \A v \in Tasks : polling[v] # NoRequest =>
            \E c \in family'[Program[v]] :
               polling[v].slot \in Range(c) /\ (Alone(v) => cleanup'[Program[v]][c[1]])
      /\ \A h \in regions : Alone(h.owner) =>
            \E c \in family'[Program[h.owner]] :
               cleanup'[Program[h.owner]][c[1]] /\ locked'[Program[h.owner]][c[1]]
  BY <1>3, FieldStep, Zenon
<1>7. TypeInv'
  BY <1>3, <1>5 DEF Inv, TypeInv, Flags
<1>8. PollersRemembered'
  <2> SUFFICES ASSUME NEW v \in Tasks, polling'[v] # NoRequest
               PROVE  \E c \in family'[Program[v]] :
                         polling'[v].slot \in Range(c) /\ (Alone(v) => cleanup'[Program[v]][c[1]])
    BY Zenon DEF PollersRemembered, Alone
  <2> QED BY <1>6, Zenon
<1>9. WillBeRemoved'
  <2> SUFFICES ASSUME NEW h \in regions', Alone(h.owner)
               PROVE  \E c \in family'[Program[h.owner]] :
                         cleanup'[Program[h.owner]][c[1]] /\ locked'[Program[h.owner]][c[1]]
    BY Zenon DEF WillBeRemoved, Alone
  <2>1. CASE h \in regions
    BY <2>1, <1>6, Zenon
  <2>2. CASE h = g
    BY <2>2, <1>2, <1>3, <1>4, Zenon
  <2> QED BY <2>1, <2>2, Zenon DEF g
<1> QED BY <1>5, <1>6, <1>7, <1>8, <1>9, Zenon DEF Inv

\* A call of fcntl that grants nothing; it may leave the task polling through
\* a descriptor whose family has its fd_Cleanup.
LEMMA NoGrantStep ==
    ASSUME Inv, NEW t \in Tasks, NEW s \in InUse(Program[t]),
           family' = family, locked' = locked, regions' = regions, Remember(t, s),
           polling' = polling \/ \E q \in Requests : polling' = [polling EXCEPT ![t] = [slot |-> s, request |-> q]]
    PROVE  Inv'
<1> DEFINE p == Program[t]
<1>1. p \in Programs
  BY RecordLockAssumption
<1>2. /\ cleanup' \in Flags /\ (Alone(t) => cleanup'[p][FamilyOf(p, s)[1]])
      /\ \A q \in Programs, x \in Slots : cleanup[q][x] => cleanup'[q][x]
  BY <1>1, RememberLemma, Zenon DEF Inv
<1>3. FamilyOf(p, s) \in family[p] /\ s \in Range(FamilyOf(p, s)) /\ s \in Slots
  BY <1>1, FamilyLemma, Zenon DEF Inv
<1>4. locked' \in Flags
  BY DEF Inv, TypeInv, Flags
<1>5. /\ FamiliesProper'
      /\ \A v \in Tasks : polling[v] # NoRequest =>
            \E c \in family'[Program[v]] :
               polling[v].slot \in Range(c) /\ (Alone(v) => cleanup'[Program[v]][c[1]])
      /\ \A h \in regions : Alone(h.owner) =>
            \E c \in family'[Program[h.owner]] :
               cleanup'[Program[h.owner]][c[1]] /\ locked'[Program[h.owner]][c[1]]
  BY <1>2, <1>4, FieldStep, Zenon
<1>6. polling' \in [Tasks -> PollType \cup {NoRequest}]
  BY <1>3, SMTT(30) DEF Inv, TypeInv, PollType
<1>7. PollersRemembered'
  <2> SUFFICES ASSUME NEW v \in Tasks, polling'[v] # NoRequest
               PROVE  \E c \in family'[Program[v]] :
                         polling'[v].slot \in Range(c) /\ (Alone(v) => cleanup'[Program[v]][c[1]])
    BY Zenon DEF PollersRemembered, Alone
  <2>1. CASE polling'[v] = polling[v]
    BY <2>1, <1>5, Zenon
  <2>2. CASE polling'[v] # polling[v]
    <3>1. v = t /\ polling'[v].slot = s
      BY <2>2, SMTT(30) DEF Inv, TypeInv
    <3> QED BY <3>1, <1>2, <1>3, Zenon
  <2> QED BY <2>1, <2>2, Zenon
<1>8. WillBeRemoved'
  <2> SUFFICES ASSUME NEW h \in regions, Alone(h.owner)
               PROVE  \E c \in family'[Program[h.owner]] :
                         cleanup'[Program[h.owner]][c[1]] /\ locked'[Program[h.owner]][c[1]]
    BY Zenon DEF WillBeRemoved, Alone
  <2> QED BY <1>5, Zenon
<1>9. TypeInv' /\ NoConflict'
  BY <1>2, <1>4, <1>6 DEF Inv, TypeInv, Flags, NoConflict
<1> QED BY <1>5, <1>7, <1>8, <1>9, Zenon DEF Inv

\* Inv is preserved by every step of every task.
LEMMA InvStep == Inv /\ [Next]_vars => Inv'
<1> SUFFICES ASSUME Inv, [Next]_vars PROVE Inv'
  OBVIOUS
<1>u. CASE UNCHANGED vars
  BY <1>u, Zenon DEF vars, Inv, TypeInv, FamiliesProper, Proper, PollersRemembered, NoConflict,
              WillBeRemoved, Alone
<1>n. ASSUME NEW t \in Tasks,
             \/ \E s \in Slots : open(t, s) \/ close(t, s) \/ NoLock(t, s)
             \/ \E s, d \in Slots : dup(t, s, d) \/ dup2Original(t, s, d)
             \/ \E s \in Slots, q \in Requests : Lock(t, s, q) \/ Unlock(t, s, q) \/ Poll(t, s, q)
             \/ Retry(t) \/ Break(t)
      PROVE  Inv'
  <2> DEFINE p == Program[t]
  <2>p. p \in Programs
    BY RecordLockAssumption
  <2>1. ASSUME NEW s \in Slots, open(t, s) PROVE Inv'
    <3>1. Kept(p, <<s>>) /\ <<s>> \notin family[p]
      BY <2>1, OpenKeeps, SMTT(30) DEF Inv
    <3>2. polling' = polling /\ regions' = regions
      BY <2>1 DEF open
    <3> HIDE DEF p
    <3> QED BY <2>p, <3>1, <3>2, TableStep, SMTT(30)
  <2>2. ASSUME NEW s \in Slots, Ready(t, s), CloseAliased(p, s) PROVE Inv'
    <3>1. s \in InUse(p) /\ Free(p, FamilyOf(p, s))
      BY <2>2 DEF Ready
    <3>2. polling' = polling /\ regions' = regions
      BY <2>2 DEF CloseAliased
    <3> HIDE DEF p
    <3>3. Kept(p, FamilyOf(p, s)) /\ Succeeds(p, FamilyOf(p, s))
      BY <2>p, <2>2, <3>1, CloseAliasedKeeps DEF Inv
    <3> QED BY <2>p, <3>1, <3>2, <3>3, TableStep, Zenon
  <2>3. ASSUME NEW s \in Slots, close(t, s) PROVE Inv'
    BY <2>2, <2>3, CloseLastStep DEF close
  <2>4. ASSUME NEW s \in Slots, NoLock(t, s) PROVE Inv'
    BY <2>4, NoGrantStep DEF NoLock, Ready
  <2>5. ASSUME NEW s \in Slots, NEW d \in Slots, dup(t, s, d) PROVE Inv'
    <3>1. s \in InUse(p) /\ Free(p, FamilyOf(p, s)) /\ d \notin InUse(p) /\ Duplicate(p, s, d)
      BY <2>5 DEF dup, Ready
    <3>2. polling' = polling /\ regions' = regions
      BY <2>5 DEF dup
    <3> HIDE DEF p
    <3>3. Kept(p, FamilyOf(p, s)) /\ Succeeds(p, FamilyOf(p, s))
      BY <2>p, <3>1, DuplicateKeeps DEF Inv
    <3> QED BY <2>p, <3>1, <3>2, <3>3, TableStep, Zenon
  <2>6. ASSUME NEW s \in Slots, NEW d \in Slots, dup2Original(t, s, d) PROVE Inv'
    <3>1. s \in InUse(p) /\ Free(p, FamilyOf(p, s)) /\ Head(FamilyOf(p, s)) = d /\ CloseAliased(p, d)
      BY <2>6 DEF dup2Original, Ready
    <3>2. polling[t] = NoRequest
      BY <2>6 DEF dup2Original, Ready
    <3> HIDE DEF p
    <3>3. FamilyOf(p, s) \in family[p] /\ d \in Range(FamilyOf(p, s)) /\ d \in InUse(p)
      BY <2>p, <3>1, FamilyLemma, SMTT(30) DEF Inv
    <3>4. FamilyOf(p, d) \in family[p] /\ d \in Range(FamilyOf(p, d))
      BY <2>p, <3>3, FamilyLemma DEF Inv
    <3>5. FamilyOf(p, d) = FamilyOf(p, s)
      BY <2>p, <3>3, <3>4, FamilyLemma, Zenon DEF Inv
    <3>6. Ready(t, d)
      BY <3>1, <3>2, <3>3, <3>5, Zenon DEF Ready, p
    <3> QED BY <2>2, <3>1, <3>6
  <2>7. ASSUME NEW s \in Slots, NEW q \in Requests, Lock(t, s, q) PROVE Inv'
    <3>1. /\ s \in InUse(p) /\ ~Collides(Region(t, q)) /\ regions' = regions \cup {Region(t, q)}
          /\ family' = family /\ polling' = polling /\ MarkAll(p, s) /\ Remember(t, s)
      BY <2>7, Zenon DEF Lock, Ready
    <3>2. /\ cleanup' \in Flags /\ (Alone(t) => cleanup'[p][FamilyOf(p, s)[1]])
          /\ \A r \in Programs, x \in Slots : cleanup[r][x] => cleanup'[r][x]
      BY <2>p, <3>1, RememberLemma, Zenon DEF Inv
    <3>3. polling \in [Tasks -> PollType \cup {NoRequest}]
      BY DEF Inv, TypeInv
    <3> QED BY <3>1, <3>2, <3>3, GrantStep, Zenon
  <2>8. ASSUME NEW s \in Slots, NEW q \in Requests, Poll(t, s, q) PROVE Inv'
    BY <2>8, NoGrantStep, Zenon DEF Poll, Ready
  <2>9. ASSUME Retry(t) PROVE Inv'
    <3> DEFINE q == polling[t].request
               s == polling[t].slot
    <3>1. /\ polling[t] # NoRequest /\ ~Collides(Region(t, q))
          /\ regions' = regions \cup {Region(t, q)} /\ MarkAll(p, s)
          /\ polling' = [polling EXCEPT ![t] = NoRequest] /\ family' = family /\ cleanup' = cleanup
      BY <2>9, Zenon DEF Retry
    <3>2. polling[t] \in PollType
      BY <3>1 DEF Inv, TypeInv
    <3>3. q \in Requests /\ s \in Slots
      BY <3>2 DEF PollType
    <3>4. PICK c \in family[p] : s \in Range(c) /\ (Alone(t) => cleanup[p][c[1]])
      BY <3>1, Zenon DEF Inv, PollersRemembered
    <3> HIDE DEF q, s
    <3>5. s \in InUse(p)
      BY <2>p, <3>4, FamilyLemma, Zenon DEF Inv
    <3>6. FamilyOf(p, s) = c
      BY <2>p, <3>4, <3>5, FamilyLemma DEF Inv
    <3>7. cleanup' \in Flags /\ (Alone(t) => cleanup'[p][FamilyOf(p, s)[1]])
      BY <3>1, <3>4, <3>6 DEF Inv, TypeInv, Flags
    <3>8. /\ polling' \in [Tasks -> PollType \cup {NoRequest}]
          /\ \A v \in Tasks : polling'[v] # NoRequest => polling'[v] = polling[v]
      BY <3>1 DEF Inv, TypeInv
    <3>9. \A r \in Programs, x \in Slots : cleanup[r][x] => cleanup'[r][x]
      BY <3>1
    <3> QED BY <3>1, <3>3, <3>5, <3>7, <3>8, <3>9, GrantStep, Zenon
  <2>10. ASSUME Break(t) PROVE Inv'
    <3>1. /\ polling' = [polling EXCEPT ![t] = NoRequest] /\ regions' = regions
          /\ family' = family /\ cleanup' = cleanup /\ locked' = locked
      BY <2>10 DEF Break, fdVars
    <3>2. TypeInv' /\ FamiliesProper' /\ NoConflict'
      BY <3>1 DEF Inv, TypeInv, FamiliesProper, Proper, NoConflict
    <3>3. PollersRemembered'
      BY <3>1 DEF Inv, TypeInv, PollersRemembered, Alone
    <3>4. WillBeRemoved'
      BY <3>1, SMTT(30) DEF Inv, WillBeRemoved, Alone
    <3> QED BY <3>2, <3>3, <3>4 DEF Inv
  <2>11. ASSUME NEW s \in Slots, NEW q \in Requests, Unlock(t, s, q) PROVE Inv'
    BY <2>4, <2>11 DEF Unlock
  <2> QED BY <1>n, <2>1, <2>3, <2>4, <2>5, <2>6, <2>7, <2>8, <2>9, <2>10, <2>11
<1> QED BY <1>u, <1>n DEF Next

\* Nothing is open and nothing is locked at first.
LEMMA InitInv == Init => Inv
<1> SUFFICES ASSUME Init PROVE Inv
  OBVIOUS
<1>1. TypeInv
  BY DEF Init, TypeInv
<1>2. FamiliesProper /\ PollersRemembered
  BY RecordLockAssumption DEF Init, FamiliesProper, Proper, PollersRemembered
<1>3. NoConflict /\ WillBeRemoved
  BY DEF Init, NoConflict, WillBeRemoved
<1> QED
  BY <1>1, <1>2, <1>3, Zenon DEF Inv

\* The records of a file are never locked by two tasks in conflict, for any
\* number of programs, threads, descriptors and requests: between the check
\* and the entry into the list nobody else has the semaphore.
THEOREM RecordsExclusive == Spec => []NoConflict
<1>1. Init => Inv
  BY InitInv
<1>2. Inv => NoConflict
  BY DEF Inv
<1> QED BY <1>1, <1>2, InvStep, PTL DEF Spec

\* Whatever it opens, duplicates and closes, a program with one task keeps a
\* descriptor that will remove its regions.
THEOREM RecordsRemoved == Spec => []WillBeRemoved
<1>1. Init => Inv
  BY InitInv
<1>2. Inv => WillBeRemoved
  BY DEF Inv
<1> QED BY <1>1, <1>2, InvStep, PTL DEF Spec

\* Nobody takes a region away but its owner, who closes the last descriptor
\* of a family or unlocks just these bytes: no other call of any task does,
\* nor the close of a descriptor that has aliases, nor a wait that ends.
THEOREM RecordsHeld == Spec => GivenUpByOwner
<1> DEFINE GivenUp(g) ==
              \E s \in Slots :
                 \/ CloseLast(g.owner, s)
                 \/ \E q \in Requests : Unlock(g.owner, s, q) /\ Region(g.owner, q) = g
<1>1. ASSUME [Next]_vars, NEW g \in regions, g \notin regions'
      PROVE  GivenUp(g)
  <2>1. Next
    BY <1>1 DEF vars
  <2>2. PICK t \in Tasks :
          \/ \E s \in Slots : open(t, s) \/ close(t, s) \/ NoLock(t, s)
          \/ \E s, d \in Slots : dup(t, s, d) \/ dup2Original(t, s, d)
          \/ \E s \in Slots, q \in Requests : Lock(t, s, q) \/ Unlock(t, s, q) \/ Poll(t, s, q)
          \/ Retry(t) \/ Break(t)
    BY <2>1 DEF Next
  <2>3. ASSUME NEW s \in Slots PROVE ~open(t, s) /\ ~NoLock(t, s) /\ ~CloseAliased(Program[t], s)
    BY <1>1, Zenon DEF open, NoLock, CloseAliased
  <2>4. ASSUME NEW s \in Slots, NEW d \in Slots PROVE ~dup(t, s, d) /\ ~dup2Original(t, s, d)
    BY <1>1 DEF dup, dup2Original, CloseAliased
  <2>5. ASSUME NEW s \in Slots, NEW q \in Requests PROVE ~Lock(t, s, q) /\ ~Poll(t, s, q) /\ ~Unlock(t, s, q)
    BY <1>1, <2>3 DEF Lock, Poll, Unlock
  <2>6. ~Retry(t) /\ ~Break(t)
    BY <1>1, Zenon DEF Retry, Break
  <2>7. PICK s \in Slots : CloseLast(t, s)
    BY <2>2, <2>3, <2>4, <2>5, <2>6 DEF close
  <2>8. g.owner = t
    BY <1>1, <2>7, SMTT(30) DEF CloseLast, Own
  <2> QED BY <2>7, <2>8
<1>2. [Next]_vars => [\A g \in regions : g \notin regions' => GivenUp(g)]_vars
  BY <1>1
<1> QED BY <1>2, PTL DEF Spec, GivenUpByOwner

=============================================================================
