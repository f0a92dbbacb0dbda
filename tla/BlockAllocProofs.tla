-------------------------- MODULE BlockAllocProofs --------------------------
(***************************************************************************)
(* Tiled, NoAdjacentFree, ListsExact and LiveExact for every block size,   *)
(* alignment, header size and sequence of calls.                           *)
(***************************************************************************)
EXTENDS BlockAlloc, TLAPS

-----------------------------------------------------------------------------
(* Lists *)

Distinct(s) == \A i, j \in DOMAIN s : s[i] = s[j] => i = j

\* Where IndexOf finds a member of a list.
LEMMA IndexLemma ==
    ASSUME NEW s \in Seq(Nat), NEW x \in Range(s)
    PROVE  IndexOf(s, x) \in 1..Len(s) /\ s[IndexOf(s, x)] = x
<1>1. \E k \in DOMAIN s : s[k] = x
  BY Zenon DEF Range
<1>2. IndexOf(s, x) \in DOMAIN s /\ s[IndexOf(s, x)] = x
  BY <1>1, Zenon DEF IndexOf
<1> QED BY <1>2

\* A list without repetition after the member at one place was removed.
LEMMA UnlinkedLemma ==
    ASSUME NEW S, NEW s \in Seq(S), Distinct(s), NEW i \in 1..Len(s)
    PROVE  LET r == Unlinked(s, i) IN
           r \in Seq(S) /\ Distinct(r) /\ Range(r) = Range(s) \ {s[i]}
<1> DEFINE r == Unlinked(s, i)
           a == SubSeq(s, 1, i - 1)
           b == SubSeq(s, i + 1, Len(s))
           h(k) == IF k < i THEN k ELSE k + 1
<1>0. /\ Len(s) \in Nat /\ DOMAIN s = 1..Len(s) /\ i \in Nat
      /\ \A k \in 1..Len(s) : s[k] \in S
  OBVIOUS
<1>a. a \in Seq(S) /\ Len(a) = i - 1 /\ \A k \in 1..(i - 1) : a[k] = s[k]
  BY <1>0
<1>b. b \in Seq(S) /\ Len(b) = Len(s) - i /\ \A k \in 1..(Len(s) - i) : b[k] = s[i + k]
  <2>1. \A k \in (i + 1)..Len(s) : s[k] \in S
    BY <1>0
  <2>2. /\ b \in Seq(S)
        /\ Len(b) = IF i + 1 <= Len(s) THEN Len(s) - (i + 1) + 1 ELSE 0
        /\ \A k \in 1..(Len(s) - (i + 1) + 1) : b[k] = s[i + 1 + k - 1]
    BY <1>0, <2>1
  <2> HIDE DEF a, b, r
  <2>3. Len(b) = Len(s) - i
    <3>1. \A n, k \in Nat : k <= n => (IF k + 1 <= n THEN n - (k + 1) + 1 ELSE 0) = n - k
      OBVIOUS
    <3>2. i <= Len(s)
      OBVIOUS
    <3> QED BY <1>0, <2>2, <3>1, <3>2, Zenon
  <2>4. \A k \in 1..(Len(s) - i) : b[k] = s[i + k]
    <3> SUFFICES ASSUME NEW k \in 1..(Len(s) - i) PROVE b[k] = s[i + k]
      BY Zenon
    <3>1. i + 1 + k - 1 = i + k /\ k \in 1..(Len(s) - (i + 1) + 1)
      BY <1>0
    <3> QED BY <3>1, <2>2, Zenon
  <2> QED BY <2>2, <2>3, <2>4, Zenon
<1>r. r = a \o b
  BY Zenon DEF Unlinked
<1> HIDE DEF a, b, r
<1>1. r \in Seq(S) /\ Len(r) = Len(s) - 1 /\ DOMAIN r = 1..Len(r)
  <2>1. r \in Seq(S) /\ Len(r) = Len(a) + Len(b)
    <3>1. a \in Seq(S) /\ b \in Seq(S) /\ r = a \o b
      BY <1>a, <1>b, <1>r, Zenon
    <3> QED BY ONLY <3>1
  <2> QED BY <2>1, <1>0, <1>a, <1>b
<1>2. \A k \in 1..Len(r) : r[k] = s[h(k)] /\ h(k) \in 1..Len(s) /\ h(k) # i
  <2> SUFFICES ASSUME NEW k \in 1..Len(r)
               PROVE  r[k] = s[h(k)] /\ h(k) \in 1..Len(s) /\ h(k) # i
    BY Zenon
  <2>1. r[k] = IF k <= Len(a) THEN a[k] ELSE b[k - Len(a)]
    <3>1. k \in 1..(Len(a) + Len(b))
      BY <1>0, <1>1, <1>a, <1>b
    <3>2. a \in Seq(S) /\ b \in Seq(S) /\ r = a \o b
      BY <1>a, <1>b, <1>r, Zenon
    <3> QED BY ONLY <3>1, <3>2
  <2>2. CASE k < i
    BY <2>1, <2>2, <1>0, <1>1, <1>a
  <2>3. CASE ~(k < i)
    <3>1. k - (i - 1) \in 1..(Len(s) - i) /\ i + (k - (i - 1)) = k + 1
      BY <2>3, <1>0, <1>1
    <3>2. r[k] = b[k - (i - 1)]
      BY <2>1, <2>3, <1>0, <1>1, <1>a
    <3>3. b[k - (i - 1)] = s[k + 1]
      BY <3>1, <1>b, Zenon
    <3> QED BY <3>2, <3>3, <2>3, <1>0, <1>1
  <2> QED BY <2>2, <2>3, Zenon
<1>3. \A k \in 1..Len(s) : k # i => \E j \in 1..Len(r) : h(j) = k
  <2> SUFFICES ASSUME NEW k \in 1..Len(s), k # i PROVE \E j \in 1..Len(r) : h(j) = k
    BY Zenon
  <2>1. CASE k < i
    <3>1. k \in 1..Len(r) /\ h(k) = k
      BY <2>1, <1>0, <1>1
    <3> QED BY <3>1, Zenon
  <2>2. CASE k > i
    <3>1. k - 1 \in 1..Len(r) /\ h(k - 1) = k
      BY <2>2, <1>0, <1>1
    <3> QED BY <3>1, Zenon
  <2> QED BY <2>1, <2>2, <1>0
<1>4. \A k, j \in 1..Len(r) : h(k) = h(j) => k = j
  BY <1>0, <1>1
<1> HIDE DEF h
<1>5. Distinct(r)
  BY <1>0, <1>1, <1>2, <1>4, SMTT(30) DEF Distinct
<1>6. Range(r) = Range(s) \ {s[i]}
  <2>1. ASSUME NEW y \in Range(r) PROVE y \in Range(s) \ {s[i]}
    BY <1>0, <1>1, <1>2, SMTT(30) DEF Range, Distinct
  <2>2. ASSUME NEW y \in Range(s), y # s[i] PROVE y \in Range(r)
    <3>1. PICK k \in 1..Len(s) : s[k] = y
      BY <1>0, Zenon DEF Range
    <3>2. PICK j \in 1..Len(r) : h(j) = k
      BY <3>1, <2>2, <1>0, <1>3, Zenon
    <3>3. r[j] = y
      BY <3>1, <3>2, <1>2, Zenon
    <3> QED BY <3>3, <1>1, Zenon DEF Range
  <2> QED BY <2>1, <2>2, Zenon
<1> QED BY <1>1, <1>5, <1>6, Zenon DEF r

\* A list without repetition after one of its members was removed.
LEMMA RemoveLemma ==
    ASSUME NEW s \in Seq(Nat), Distinct(s), NEW x \in Range(s)
    PROVE  LET r == Unlinked(s, IndexOf(s, x)) IN
           r \in Seq(Nat) /\ Distinct(r) /\ Range(r) = Range(s) \ {x}
<1>1. IndexOf(s, x) \in 1..Len(s) /\ s[IndexOf(s, x)] = x
  BY IndexLemma, Zenon
<1> QED BY <1>1, UnlinkedLemma, Zenon

\* A list without repetition after a new member was put at its end.
LEMMA AppendLemma ==
    ASSUME NEW s \in Seq(Nat), Distinct(s), NEW x \in Nat, x \notin Range(s)
    PROVE  LET r == Append(s, x) IN
           r \in Seq(Nat) /\ Distinct(r) /\ Range(r) = Range(s) \union {x}
<1> DEFINE r == Append(s, x)
<1>1. /\ r \in Seq(Nat) /\ Len(r) = Len(s) + 1 /\ Len(s) \in Nat
      /\ DOMAIN s = 1..Len(s) /\ DOMAIN r = 1..(Len(s) + 1)
      /\ r[Len(s) + 1] = x /\ \A k \in 1..Len(s) : r[k] = s[k]
  OBVIOUS
<1> HIDE DEF r
<1>2. \A k \in 1..(Len(s) + 1) : k \in 1..Len(s) \/ k = Len(s) + 1
  BY <1>1
<1>2a. 1..Len(s) \subseteq 1..(Len(s) + 1) /\ Len(s) + 1 \in 1..(Len(s) + 1)
  BY <1>1
<1>3. Distinct(r)
  BY <1>1, <1>2, Zenon DEF Distinct, Range
<1>4. Range(r) = Range(s) \union {x}
  BY <1>1, <1>2, <1>2a, Zenon DEF Range
<1> QED BY <1>1, <1>3, <1>4, Zenon DEF r

\* A list without repetition after a new member was put at its head.
LEMMA PrependLemma ==
    ASSUME NEW s \in Seq(Nat), Distinct(s), NEW x \in Nat, x \notin Range(s)
    PROVE  LET r == <<x>> \o s IN
           r \in Seq(Nat) /\ Distinct(r) /\ Range(r) = Range(s) \union {x}
<1> DEFINE r == <<x>> \o s
<1>0. <<x>> \in Seq(Nat) /\ Len(<<x>>) = 1 /\ <<x>>[1] = x /\ Len(s) \in Nat /\ DOMAIN s = 1..Len(s)
  OBVIOUS
<1>1. /\ r \in Seq(Nat) /\ Len(r) = 1 + Len(s)
      /\ \A k \in 1..(1 + Len(s)) : r[k] = IF k <= 1 THEN <<x>>[k] ELSE s[k - 1]
  BY <1>0
<1> HIDE DEF r
<1>2. DOMAIN r = 1..(1 + Len(s)) /\ r[1] = x /\ \A k \in 2..(1 + Len(s)) : r[k] = s[k - 1]
  BY <1>0, <1>1
<1>3. \A k \in 1..(1 + Len(s)) : k = 1 \/ (k \in 2..(1 + Len(s)) /\ k - 1 \in 1..Len(s))
  BY <1>0
<1>5. Distinct(r)
  <2> SUFFICES ASSUME NEW k \in 1..(1 + Len(s)), NEW j \in 1..(1 + Len(s)), r[k] = r[j] PROVE k = j
    BY <1>2, Zenon DEF Distinct
  <2>1. ASSUME NEW n \in 2..(1 + Len(s)) PROVE r[n] # x /\ n - 1 \in 1..Len(s)
    <3>1. n - 1 \in 1..Len(s) /\ r[n] = s[n - 1]
      BY <1>0, <1>2
    <3>2. s[n - 1] \in Range(s)
      BY <3>1, <1>0, Zenon DEF Range
    <3> QED BY <3>1, <3>2, Zenon
  <2>2. CASE k = 1 \/ j = 1
    BY <2>1, <2>2, <1>2, <1>3, Zenon
  <2>3. CASE k # 1 /\ j # 1
    <3>1. s[k - 1] = s[j - 1] /\ k - 1 \in DOMAIN s /\ j - 1 \in DOMAIN s
      BY <2>3, <1>0, <1>2, <1>3, Zenon
    <3>2. k - 1 = j - 1
      BY <3>1, Zenon DEF Distinct
    <3> QED BY <3>2
  <2> QED BY <2>2, <2>3, Zenon
<1>6. Range(r) = Range(s) \union {x}
  <2>1. ASSUME NEW y \in Range(r) PROVE y \in Range(s) \union {x}
    BY <1>0, <1>2, <1>3, Zenon DEF Range
  <2>2. ASSUME NEW y \in Range(s) PROVE y \in Range(r)
    <3>1. PICK k \in 1..Len(s) : s[k] = y
      BY <1>0, Zenon DEF Range
    <3>2. k + 1 \in 2..(1 + Len(s)) /\ k + 1 - 1 = k /\ k + 1 \in 1..(1 + Len(s))
      BY <1>0
    <3>3. r[k + 1] = y
      BY <3>1, <3>2, <1>2
    <3> QED BY <3>2, <3>3, <1>2, Zenon DEF Range
  <2>3. x \in Range(r)
    BY <1>0, <1>2, SMTT(30) DEF Range
  <2> QED BY <2>1, <2>2, <2>3, Zenon
<1> QED BY <1>1, <1>5, <1>6, Zenon DEF r

\* A list without repetition after one member gave its place to a new one.
LEMMA ReplaceLemma ==
    ASSUME NEW s \in Seq(Nat), Distinct(s), NEW x \in Range(s), NEW y \in Nat, y \notin Range(s)
    PROVE  LET r == [s EXCEPT ![IndexOf(s, x)] = y] IN
           r \in Seq(Nat) /\ Distinct(r) /\ Range(r) = (Range(s) \ {x}) \union {y}
<1> DEFINE i == IndexOf(s, x)
           r == [s EXCEPT ![i] = y]
<1>0. /\ Len(s) \in Nat /\ DOMAIN s = 1..Len(s) /\ i \in 1..Len(s) /\ s[i] = x
      /\ \A k \in 1..Len(s) : s[k] \in Nat
  <2>1. \E k \in DOMAIN s : s[k] = x
    BY Zenon DEF Range
  <2>2. i \in DOMAIN s /\ s[i] = x
    BY <2>1, Zenon DEF IndexOf
  <2> QED BY <2>2
<1> HIDE DEF i
<1>1. r \in Seq(Nat) /\ DOMAIN r = 1..Len(s) /\ r[i] = y /\ \A k \in 1..Len(s) : k # i => r[k] = s[k]
  BY <1>0
<1> HIDE DEF r
<1>2. Distinct(r)
  BY <1>0, <1>1, SMTT(30) DEF Distinct, Range
<1>3. Range(r) = (Range(s) \ {x}) \union {y}
  <2>1. Range(r) = {r[k] : k \in 1..Len(s)} /\ Range(s) = {s[k] : k \in 1..Len(s)}
    BY <1>0, <1>1, Zenon DEF Range
  <2>2. \A k \in 1..Len(s) : k # i => s[k] # x
    BY <1>0, Zenon DEF Distinct
  <2> QED BY <2>1, <2>2, <1>0, <1>1, Zenon
<1> QED BY <1>1, <1>2, <1>3, Zenon DEF r, i

-----------------------------------------------------------------------------
(* Chunks *)

\* The allocator is a record of headers and lists.
Fields == {"len", "prev", "last", "used", "master", "recycler"}
Record(a) == a = [f \in Fields |-> a[f]]

AllocType(a) ==
    /\ Record(a)
    /\ Chunks(a) \subseteq Nat \ {0}
    /\ a.len \in [Chunks(a) -> Nat] /\ a.prev \in [Chunks(a) -> Nat]
    /\ a.last \subseteq Chunks(a) /\ a.used \subseteq Chunks(a)
    /\ a.master \in Nat /\ a.recycler \in Seq(Nat)

\* A block with a chunk has its first chunk: no address of an unused block is taken.
Founded(a) ==
    \A x \in Chunks(a), b \in Bases :
        b + BLOCK_HEADER <= x /\ x < b + BLOCK_SIZE => b + BLOCK_HEADER \in Chunks(a)

Row(a) == AllocType(a) /\ TiledBy(a) /\ Founded(a)

\* What an operation that changes neither flag `used' nor the lists leaves alone.
SameLists(a, k) == k.used = a.used /\ k.master = a.master /\ k.recycler = a.recycler

\* The fields of the allocator after Carve.
LEMMA CarveFields ==
    ASSUME NEW a, AllocType(a), NEW c \in Chunks(a), NEW n \in Nat \ {0}, n < a.len[c],
           c + n \notin Chunks(a),
           c \notin a.last => c + a.len[c] \in Chunks(a)
    PROVE  LET k == Carve(a, c, n)
               next == c + a.len[c]
           IN /\ Record(k) /\ SameLists(a, k)
              /\ k.last = Passed(a.last, c, c + n)
              /\ k.len = [x \in Chunks(a) \union {c + n} |->
                             IF x = c THEN n ELSE IF x = c + n THEN a.len[c] - n ELSE a.len[x]]
              /\ k.prev = [x \in Chunks(a) \union {c + n} |->
                             IF x = c + n THEN n
                             ELSE IF c \notin a.last /\ x = next THEN a.len[c] - n ELSE a.prev[x]]
<1> DEFINE L == [x \in Chunks(a) \union {c + n} |->
                    IF x = c THEN n ELSE IF x = c + n THEN a.len[c] - n ELSE a.len[x]]
           P == [x \in Chunks(a) \union {c + n} |-> IF x = c + n THEN n ELSE a.prev[x]]
           S == Passed(a.last, c, c + n)
           j == [a EXCEPT !.len = With(With(@, c, n), c + n, @[c] - n),
                          !.prev = With(@, c + n, n), !.last = Passed(@, c, c + n)]
<1>0. c + n # c /\ c \in Nat /\ a.len[c] \in Nat /\ DOMAIN a.len = Chunks(a) /\ DOMAIN a.prev = Chunks(a)
  BY Zenon DEF AllocType, Chunks
<1>1. With(With(a.len, c, n), c + n, a.len[c] - n) = L /\ With(a.prev, c + n, n) = P
  BY <1>0, Zenon DEF With
<1>2. /\ Record(j) /\ SameLists(a, j)
      /\ j.last = S
      /\ j.len = With(With(a.len, c, n), c + n, a.len[c] - n)
      /\ j.prev = With(a.prev, c + n, n)
  BY Zenon DEF AllocType, Record, Fields, SameLists
<1>3. Carve(a, c, n) = Relinked(j, c + n)
  BY Zenon DEF Carve
<1>4. j.len = L /\ j.prev = P /\ L[c + n] = a.len[c] - n /\ c + n + (a.len[c] - n) = c + a.len[c]
  BY <1>0, <1>1, <1>2
<1>5. c + n \in S <=> c \in a.last
  BY Zenon DEF Passed, AllocType
<1> HIDE DEF j, L, P, S
<1>6. CASE c \in a.last
  <2>1. Relinked(j, c + n) = j
    BY <1>2, <1>5, <1>6, Zenon DEF Relinked
  <2> QED BY <2>1, <1>2, <1>3, <1>4, <1>6, Zenon DEF L, P, S
<1>7. CASE c \notin a.last
  <2> DEFINE k == [j EXCEPT !.prev = With(@, c + a.len[c], a.len[c] - n)]
  <2>1. Relinked(j, c + n) = k
    BY <1>2, <1>4, <1>5, <1>7, Zenon DEF Relinked, ChunkNext
  <2>2. /\ Record(k) /\ SameLists(j, k) /\ k.last = j.last /\ k.len = j.len
        /\ k.prev = With(j.prev, c + a.len[c], a.len[c] - n)
    BY <1>2, Zenon DEF Record, Fields, SameLists
  <2>3. c + a.len[c] \in Chunks(a) /\ c + a.len[c] # c + n
    BY <1>0, <1>7, Zenon
  <2>4. With(P, c + a.len[c], a.len[c] - n)
          = [x \in Chunks(a) \union {c + n} |->
                IF x = c + n THEN n
                ELSE IF c \notin a.last /\ x = c + a.len[c] THEN a.len[c] - n ELSE a.prev[x]]
    BY <2>3, <1>7, Zenon DEF With, P
  <2> HIDE DEF k
  <2> QED BY <2>1, <2>2, <2>4, <1>2, <1>3, <1>4, Zenon DEF L, S, SameLists
<1> QED BY <1>6, <1>7, Zenon

\* Carve leaves a row of chunks, c among them with n bytes and a new one after it.
LEMMA CarveRow ==
    ASSUME NEW a, Row(a), NEW c \in Chunks(a), NEW n \in Nat,
           n >= CHUNK_HEADER, n + CHUNK_HEADER <= a.len[c]
    PROVE  LET k == Carve(a, c, n)
           IN /\ Row(k) /\ SameLists(a, k)
              /\ c + n \notin Chunks(a) /\ Chunks(k) = Chunks(a) \union {c + n}
              /\ k.last = Passed(a.last, c, c + n)
              /\ k.len[c] = n /\ k.len[c + n] = a.len[c] - n
              /\ \A x \in Chunks(a) : x # c => k.len[x] = a.len[x]
<1> DEFINE k == Carve(a, c, n)
           e == c + n
           next == c + a.len[c]
<1>0. /\ CHUNK_HEADER \in Nat \ {0} /\ BLOCK_HEADER \in Nat \ {0} /\ BLOCK_SIZE \in Nat
      /\ Bases \subseteq Nat
      /\ \A x, y \in Bases : x < y => x + BLOCK_SIZE <= y
  BY BlockAssumption, Zenon
<1>1. AllocType(a) /\ TiledBy(a) /\ c \in Nat \ {0} /\ a.len[c] \in Nat /\ n # 0 /\ n < a.len[c]
  BY <1>0 DEF Row, AllocType
<1>2. e \in Nat \ {0} /\ e \notin Chunks(a) /\ e # c /\ next # e /\ next # c /\ c < e /\ e < next
  BY <1>0, <1>1, SMTT(30) DEF TiledBy, AllocType
<1>3. c \notin a.last => next \in Chunks(a) /\ a.prev[next] = a.len[c]
  BY <1>1, Zenon DEF TiledBy
<1>4. /\ Record(k) /\ SameLists(a, k)
      /\ k.last = Passed(a.last, c, e)
      /\ k.len = [x \in Chunks(a) \union {e} |->
                     IF x = c THEN n ELSE IF x = e THEN a.len[c] - n ELSE a.len[x]]
      /\ k.prev = [x \in Chunks(a) \union {e} |->
                     IF x = e THEN n
                     ELSE IF c \notin a.last /\ x = next THEN a.len[c] - n ELSE a.prev[x]]
  <2>1. /\ AllocType(a) /\ n \in Nat \ {0} /\ n < a.len[c] /\ c + n \notin Chunks(a)
        /\ c \notin a.last => c + a.len[c] \in Chunks(a)
    BY <1>1, <1>2, <1>3, Zenon
  <2> QED BY ONLY <2>1, c \in Chunks(a), CarveFields
<1> HIDE DEF k
<1>5. /\ Chunks(k) = Chunks(a) \union {e}
      /\ k.len[c] = n /\ k.len[e] = a.len[c] - n
      /\ \A x \in Chunks(a) : x # c => k.len[x] = a.len[x]
      /\ k.prev[e] = n
      /\ \A x \in Chunks(a) : k.prev[x] = IF c \notin a.last /\ x = next THEN a.len[c] - n ELSE a.prev[x]
  BY <1>1, <1>2, <1>4, Zenon DEF Chunks
<1>6. AllocType(k)
  <2>1. k.last \subseteq Chunks(k) /\ k.used \subseteq Chunks(k)
    BY <1>1, <1>4, <1>5, Zenon DEF AllocType, Passed, SameLists
  <2>2. k.len \in [Chunks(k) -> Nat] /\ k.prev \in [Chunks(k) -> Nat]
    BY <1>0, <1>1, <1>2, <1>4, <1>5, SMTT(30) DEF AllocType
  <2> QED BY <1>1, <1>2, <1>4, <1>5, <2>1, <2>2, Zenon DEF AllocType, SameLists
<1>7. /\ \A x \in Chunks(a) : x # c => (x \in k.last <=> x \in a.last)
      /\ c \notin k.last /\ (e \in k.last <=> c \in a.last)
  BY <1>1, <1>2, <1>4, SMTT(30) DEF Passed, AllocType
<1>8. /\ \A x \in Chunks(a) : x \in Nat /\ a.len[x] \in Nat /\ a.prev[x] \in Nat
      /\ \A x \in Chunks(a) : a.len[x] >= CHUNK_HEADER
      /\ \A x, y \in Chunks(a) : x < y => x + a.len[x] <= y
  BY <1>1, Zenon DEF AllocType, TiledBy
<1>9. ASSUME NEW x \in Chunks(k)
      PROVE  /\ k.len[x] >= CHUNK_HEADER
             /\ \A d \in Chunks(k) : x < d => x + k.len[x] <= d
  BY <1>0, <1>1, <1>2, <1>5, <1>8
<1>10. ASSUME NEW x \in Chunks(k)
       PROVE  \E b \in Bases :
                /\ b + BLOCK_HEADER <= x /\ x + k.len[x] <= b + BLOCK_SIZE
                /\ x \in k.last <=> x + k.len[x] = b + BLOCK_SIZE
                /\ k.prev[x] = 0 <=> x = b + BLOCK_HEADER
  <2> DEFINE y == IF x = e THEN c ELSE x
  <2>1. y \in Chunks(a)
    BY <1>5, Zenon
  <2>2. PICK b \in Bases :
                /\ b + BLOCK_HEADER <= y /\ y + a.len[y] <= b + BLOCK_SIZE
                /\ y \in a.last <=> y + a.len[y] = b + BLOCK_SIZE
                /\ a.prev[y] = 0 <=> y = b + BLOCK_HEADER
    BY <1>1, <2>1, Zenon DEF TiledBy
  <2>3. CASE x = e \/ x = c
    BY <2>2, <2>3, <1>0, <1>1, <1>2, <1>5, <1>7, <1>8
  <2>4. CASE x # e /\ x # c
    <3>1. c \notin a.last /\ x = next => a.prev[x] # 0 /\ k.prev[x] # 0
      BY <1>1, <1>3, <1>5, <2>4, <2>1
    <3> QED BY <3>1, <2>1, <2>2, <2>4, <1>0, <1>1, <1>5, <1>7, <1>8, Zenon
  <2> QED BY <2>3, <2>4, Zenon
<1>11. ASSUME NEW x \in Chunks(k), x \notin k.last
       PROVE  x + k.len[x] \in Chunks(k) /\ k.prev[x + k.len[x]] = k.len[x]
  <2>1. CASE x = c
    BY <2>1, <1>5, <1>1, Zenon
  <2>2. CASE x = e
    BY <2>2, <1>11, <1>1, <1>2, <1>3, <1>5, <1>7
  <2>3. CASE x # c /\ x # e
    <3>1. x \in Chunks(a) /\ x \notin a.last /\ k.len[x] = a.len[x]
      BY <2>3, <1>11, <1>5, <1>7, Zenon
    <3>2. x + a.len[x] \in Chunks(a) /\ a.prev[x + a.len[x]] = a.len[x]
      BY <3>1, <1>1, Zenon DEF TiledBy
    <3>3. x + a.len[x] # next
      BY <3>1, <2>3, <1>0, <1>1, <1>8
    <3> QED BY <3>1, <3>2, <3>3, <1>2, <1>5, Zenon
  <2> QED BY <2>1, <2>2, <2>3, Zenon
<1>12. ASSUME NEW x \in Chunks(k), k.prev[x] # 0
       PROVE  x - k.prev[x] \in Chunks(k) /\ k.len[x - k.prev[x]] = k.prev[x]
  <2>1. CASE x = e
    BY <2>1, <1>1, <1>2, <1>5
  <2>2. CASE x # e /\ c \notin a.last /\ x = next
    <3>1. k.prev[x] = a.len[c] - n /\ x - (a.len[c] - n) = e
      BY <2>2, <1>1, <1>5
    <3> QED BY <3>1, <1>5, Zenon
  <2>3. CASE x # e /\ ~(c \notin a.last /\ x = next)
    <3>1. x \in Chunks(a) /\ k.prev[x] = a.prev[x] /\ a.prev[x] # 0
      BY <2>3, <1>12, <1>5, Zenon
    <3>2. x - a.prev[x] \in Chunks(a) /\ a.len[x - a.prev[x]] = a.prev[x]
      BY <3>1, <1>1, Zenon DEF TiledBy
    <3>3. x - a.prev[x] # c
      <4> SUFFICES ASSUME x - a.prev[x] = c PROVE FALSE
        BY Zenon
      <4>1. x = next
        BY <3>1, <3>2, <1>1, <1>8
      <4>2. c \in a.last
        BY <4>1, <2>3, Zenon
      <4>3. PICK b \in Bases : b + BLOCK_HEADER <= c /\ c + a.len[c] = b + BLOCK_SIZE
        BY <4>2, <1>1, Zenon DEF TiledBy
      <4>4. PICK d \in Bases : d + BLOCK_HEADER <= x /\ x + a.len[x] <= d + BLOCK_SIZE
        BY <3>1, <1>1, Zenon DEF TiledBy
      <4> QED BY <4>1, <4>3, <4>4, <3>1, <1>0, <1>1, <1>8
    <3> QED BY <3>1, <3>2, <3>3, <1>5, Zenon
  <2> QED BY <2>1, <2>2, <2>3, Zenon
<1>13. TiledBy(k)
  BY <1>9, <1>10, <1>11, <1>12, Zenon DEF TiledBy
<1>14. Founded(k)
  <2>0. Founded(a) /\ Chunks(k) = Chunks(a) \union {e}
    BY <1>5, Zenon DEF Row
  <2>1. ASSUME NEW b \in Bases, b + BLOCK_HEADER <= e, e < b + BLOCK_SIZE
        PROVE  b + BLOCK_HEADER \in Chunks(a)
    <3>1. PICK d \in Bases : d + BLOCK_HEADER <= c /\ c + a.len[c] <= d + BLOCK_SIZE
      BY <1>1, Zenon DEF TiledBy
    <3>2. b \in Nat /\ d \in Nat /\ c \in Nat /\ e \in Nat /\ next \in Nat
      BY <1>0, <1>1, <1>2
    <3>3. b = d
      <4>1. b < d => b + BLOCK_SIZE <= d
        BY <1>0, Zenon
      <4>2. d < b => d + BLOCK_SIZE <= b
        BY <1>0, Zenon
      <4>3. d < e /\ e < d + BLOCK_SIZE /\ b < e
        BY <3>1, <3>2, <2>1, <1>0, <1>2
      <4> HIDE DEF e, next
      <4> QED BY <4>1, <4>2, <4>3, <3>2, <2>1, <1>0
    <3>4. b + BLOCK_HEADER <= c /\ c < b + BLOCK_SIZE
      BY <3>1, <3>2, <3>3, <1>0, <1>2
    <3> QED BY <3>4, <2>0, Zenon DEF Founded
  <2> HIDE DEF e, next
  <2> QED BY <2>0, <2>1, Zenon DEF Founded
<1> QED BY <1>2, <1>4, <1>5, <1>6, <1>13, <1>14, Zenon DEF Row, k

\* The fields of the allocator after Absorb.
LEMMA AbsorbFields ==
    ASSUME NEW a, Record(a), NEW c, NEW d \in DOMAIN a.len, c \in DOMAIN a.len, c # d,
           DOMAIN a.prev = DOMAIN a.len
    PROVE  LET j == Absorb(a, c, d) IN
           /\ Record(j) /\ SameLists(a, j) /\ j.last = Passed(a.last, d, c)
           /\ j.len = [x \in DOMAIN a.len \ {d} |-> IF x = c THEN a.len[c] + a.len[d] ELSE a.len[x]]
           /\ j.prev = [x \in DOMAIN a.len \ {d} |-> a.prev[x]]
<1> DEFINE j == Absorb(a, c, d)
<1>1. /\ Record(j) /\ SameLists(a, j) /\ j.last = Passed(a.last, d, c)
      /\ j.len = Without(With(a.len, c, a.len[c] + a.len[d]), d)
      /\ j.prev = Without(a.prev, d)
  BY Zenon DEF Record, Fields, SameLists, Absorb
<1>2. /\ Without(With(a.len, c, a.len[c] + a.len[d]), d)
           = [x \in DOMAIN a.len \ {d} |-> IF x = c THEN a.len[c] + a.len[d] ELSE a.len[x]]
      /\ Without(a.prev, d) = [x \in DOMAIN a.len \ {d} |-> a.prev[x]]
  BY Zenon DEF With, Without
<1> HIDE DEF j
<1> QED BY <1>1, <1>2, Zenon DEF j

\* The fields of the allocator after Relinked.
LEMMA RelinkedFields ==
    ASSUME NEW a, Record(a), NEW c
    PROVE  LET k == Relinked(a, c) IN
           /\ Record(k) /\ SameLists(a, k) /\ k.last = a.last /\ k.len = a.len
           /\ c \in a.last => k.prev = a.prev
           /\ c \notin a.last => k.prev = With(a.prev, c + a.len[c], a.len[c])
<1>1. CASE c \in a.last
  BY <1>1, Zenon DEF Relinked, SameLists
<1>2. CASE c \notin a.last
  <2> DEFINE k == [a EXCEPT !.prev = With(@, c + a.len[c], a.len[c])]
  <2>1. Relinked(a, c) = k
    BY <1>2, Zenon DEF Relinked, ChunkNext
  <2>2. /\ Record(k) /\ SameLists(a, k) /\ k.last = a.last /\ k.len = a.len
        /\ k.prev = With(a.prev, c + a.len[c], a.len[c])
    BY Zenon DEF Record, Fields, SameLists
  <2> HIDE DEF k
  <2> QED BY <1>2, <2>1, <2>2, Zenon
<1> QED BY <1>1, <1>2, Zenon

\* c with the free chunk after it, and the chunk after that one told.
Joined(a, c, d) == Relinked(Absorb(a, c, d), c)

\* Joining two chunks leaves a row of chunks.
LEMMA JoinedRow ==
    ASSUME NEW a, Row(a), NEW c \in Chunks(a), c \notin a.last, NEW d, d = ChunkNext(a, c), d \notin a.used
    PROVE  LET k == Joined(a, c, d) IN
           /\ Row(k) /\ SameLists(a, k)
           /\ d \in Chunks(a) /\ d # c /\ Chunks(k) = Chunks(a) \ {d}
           /\ k.last = Passed(a.last, d, c)
           /\ k.len[c] = a.len[c] + a.len[d]
           /\ \A x \in Chunks(k) : x # c => k.len[x] = a.len[x]
           /\ \A x \in Chunks(k) : (d \notin a.last /\ x = ChunkNext(a, d)) \/ k.prev[x] = a.prev[x]
           /\ d \notin a.last => k.prev[ChunkNext(a, d)] = a.len[c] + a.len[d]
<1> DEFINE j == Absorb(a, c, d)
           k == Joined(a, c, d)
           next == d + a.len[d]
<1>0. /\ CHUNK_HEADER \in Nat \ {0} /\ BLOCK_HEADER \in Nat \ {0} /\ BLOCK_SIZE \in Nat
      /\ Bases \subseteq Nat
      /\ \A x, y \in Bases : x < y => x + BLOCK_SIZE <= y
  BY BlockAssumption, Zenon
<1>1. AllocType(a) /\ TiledBy(a) /\ DOMAIN a.len = Chunks(a) /\ DOMAIN a.prev = Chunks(a)
  BY Zenon DEF Row, AllocType, Chunks
<1>2. /\ \A x \in Chunks(a) : x \in Nat \ {0} /\ a.len[x] \in Nat /\ a.prev[x] \in Nat
      /\ \A x \in Chunks(a) : a.len[x] >= CHUNK_HEADER
      /\ \A x, y \in Chunks(a) : x < y => x + a.len[x] <= y
  BY <1>1, Zenon DEF AllocType, TiledBy
<1>3. d \in Chunks(a) /\ d = c + a.len[c] /\ a.prev[d] = a.len[c] /\ c < d /\ d < next
  BY <1>0, <1>1, <1>2 DEF TiledBy, ChunkNext
<1>3a. c \in Nat /\ d \in Nat /\ a.len[c] \in Nat \ {0} /\ a.len[d] \in Nat \ {0} /\ next \in Nat
  <2>1. \A n \in Nat : n >= CHUNK_HEADER => n # 0
    BY <1>0
  <2>2. c \in Nat /\ d \in Nat /\ a.len[c] \in Nat \ {0} /\ a.len[d] \in Nat \ {0}
    BY <2>1, <1>2, <1>3, Zenon
  <2> QED BY <2>2
<1>4. d \notin a.last => next \in Chunks(a) /\ a.prev[next] = a.len[d]
  BY <1>1, <1>3, Zenon DEF TiledBy
<1>5. /\ Record(j) /\ SameLists(a, j) /\ j.last = Passed(a.last, d, c)
      /\ j.len = [x \in Chunks(a) \ {d} |-> IF x = c THEN a.len[c] + a.len[d] ELSE a.len[x]]
      /\ j.prev = [x \in Chunks(a) \ {d} |-> a.prev[x]]
  <2>1. Record(a) /\ c \in DOMAIN a.len /\ d \in DOMAIN a.len /\ c # d /\ DOMAIN a.prev = DOMAIN a.len
    BY <1>1, <1>2, <1>3 DEF AllocType
  <2>2. LET i == Absorb(a, c, d) IN
           /\ Record(i) /\ SameLists(a, i) /\ i.last = Passed(a.last, d, c)
           /\ i.len = [x \in DOMAIN a.len \ {d} |-> IF x = c THEN a.len[c] + a.len[d] ELSE a.len[x]]
           /\ i.prev = [x \in DOMAIN a.len \ {d} |-> a.prev[x]]
    BY ONLY <2>1, AbsorbFields
  <2> QED BY <2>2, <1>1, Zenon
<1>6. c \in Passed(a.last, d, c) <=> d \in a.last
  BY Zenon DEF Passed
<1>7. /\ Record(k) /\ SameLists(j, k) /\ k.last = j.last /\ k.len = j.len
      /\ c \in j.last => k.prev = j.prev
      /\ c \notin j.last => k.prev = With(j.prev, c + j.len[c], j.len[c])
  BY <1>5, RelinkedFields DEF Joined
<1> HIDE DEF j, k
<1>8. j.len[c] = a.len[c] + a.len[d] /\ c + j.len[c] = next
  BY <1>2, <1>3, <1>5
<1>9. /\ Chunks(k) = Chunks(a) \ {d}
      /\ k.len[c] = a.len[c] + a.len[d]
      /\ \A x \in Chunks(k) : x # c => k.len[x] = a.len[x]
      /\ k.last = Passed(a.last, d, c)
      /\ SameLists(a, k)
  <2>1. DOMAIN k.len = Chunks(a) \ {d} /\ SameLists(a, k) /\ c \in Chunks(a) \ {d}
    BY <1>3, <1>3a, <1>5, <1>7 DEF SameLists
  <2>2. Chunks(k) = Chunks(a) \ {d}
    BY <2>1, Zenon DEF Chunks
  <2> QED BY <1>5, <1>7, <2>1, <2>2
<1>10. /\ d \in a.last => k.prev = [x \in Chunks(k) |-> a.prev[x]]
       /\ d \notin a.last => k.prev = [x \in Chunks(k) |->
                                IF x = next THEN a.len[c] + a.len[d] ELSE a.prev[x]]
  <2>1. CASE d \in a.last
    BY <2>1, <1>5, <1>6, <1>7, <1>9, Zenon
  <2>2. CASE d \notin a.last
    <3>1. k.prev = With(j.prev, next, a.len[c] + a.len[d])
      BY <2>2, <1>5, <1>6, <1>7, <1>8, Zenon
    <3>2. next \in Chunks(a) \ {d}
      BY <2>2, <1>2, <1>3, <1>4
    <3> QED BY <2>2, <3>1, <3>2, <1>5, <1>9 DEF With
  <2> QED BY <2>1, <2>2, Zenon
<1>11. /\ \A x \in Chunks(k) : k.prev[x] = IF d \notin a.last /\ x = next THEN a.len[c] + a.len[d] ELSE a.prev[x]
       /\ \A x \in Chunks(k) : x # c => (x \in k.last <=> x \in a.last)
       /\ c \in k.last <=> d \in a.last
       /\ c \in Chunks(k)
  BY <1>2, <1>3, <1>6, <1>9, <1>10 DEF Passed
<1>12. AllocType(k)
  <2>1. k.last \subseteq Chunks(k) /\ k.used \subseteq Chunks(k)
    BY <1>1, <1>3, <1>9, <1>11, SMTT(30) DEF AllocType, Passed, SameLists
  <2>0. a.len[c] + a.len[d] \in Nat /\ \A x \in Chunks(k) : a.len[x] \in Nat /\ a.prev[x] \in Nat
    <3>1. a.len[c] + a.len[d] \in Nat
      BY <1>3a
    <3> QED BY <3>1, <1>2, <1>9, Zenon
  <2>2. k.prev \in [Chunks(k) -> Nat]
    BY <2>0, <1>10, Zenon
  <2>3. k.len \in [Chunks(k) -> Nat]
    BY <2>0, <1>5, <1>7, <1>9, Zenon
  <2> QED BY <1>1, <1>7, <1>9, <2>1, <2>2, <2>3, Zenon DEF AllocType, SameLists
<1>13. ASSUME NEW x \in Chunks(k)
       PROVE  /\ k.len[x] >= CHUNK_HEADER
              /\ \A y \in Chunks(k) : x < y => x + k.len[x] <= y
  <2>0. x \in Chunks(a) /\ x # d /\ \A y \in Chunks(k) : y \in Chunks(a) /\ y # d
    BY <1>9, Zenon
  <2>1. CASE x = c
    <3>1. k.len[c] >= CHUNK_HEADER
      <4>1. k.len[c] = a.len[c] + a.len[d] /\ a.len[c] >= CHUNK_HEADER
        BY <1>2, <1>9, Zenon
      <4> QED BY <4>1, <1>0, <1>3a
    <3>2. ASSUME NEW y \in Chunks(k), c < y PROVE c + k.len[c] <= y
      <4>1. y \in Nat /\ c + a.len[c] <= y /\ y # d /\ (d < y => d + a.len[d] <= y)
        BY <3>2, <2>0, <1>2, <1>3, Zenon
      <4> QED BY <4>1, <1>3, <1>3a, <1>9
    <3> QED BY <2>1, <3>1, <3>2, Zenon
  <2>2. CASE x # c
    BY <2>0, <2>2, <1>2, <1>9, Zenon
  <2> QED BY <2>1, <2>2, Zenon
<1>14. ASSUME NEW x \in Chunks(k)
       PROVE  \E b \in Bases :
                /\ b + BLOCK_HEADER <= x /\ x + k.len[x] <= b + BLOCK_SIZE
                /\ x \in k.last <=> x + k.len[x] = b + BLOCK_SIZE
                /\ k.prev[x] = 0 <=> x = b + BLOCK_HEADER
  <2>1. PICK b \in Bases :
                /\ b + BLOCK_HEADER <= x /\ x + a.len[x] <= b + BLOCK_SIZE
                /\ x \in a.last <=> x + a.len[x] = b + BLOCK_SIZE
                /\ a.prev[x] = 0 <=> x = b + BLOCK_HEADER
    BY <1>1, <1>9, Zenon DEF TiledBy
  <2>2. CASE x = c
    <3>1. PICK f \in Bases :
                /\ f + BLOCK_HEADER <= d /\ d + a.len[d] <= f + BLOCK_SIZE
                /\ d \in a.last <=> d + a.len[d] = f + BLOCK_SIZE
      BY <1>1, <1>3, Zenon DEF TiledBy
    <3>2. f = b
      BY <3>1, <2>1, <2>2, <1>0, <1>2, <1>3, <1>3a
    <3>3. k.prev[x] = a.prev[x]
      BY <2>2, <1>2, <1>3, <1>3a, <1>11
    <3> QED BY <3>1, <3>2, <3>3, <2>1, <2>2, <1>0, <1>2, <1>3, <1>3a, <1>9, <1>11, SMTT(30)
  <2>3. CASE x # c
    <3>1. k.prev[x] = 0 <=> a.prev[x] = 0
      BY <1>0, <1>2, <1>3, <1>4, <1>9, <1>11
    <3> QED BY <3>1, <2>1, <2>3, <1>9, <1>11, Zenon
  <2> QED BY <2>2, <2>3, Zenon
<1>15. ASSUME NEW x \in Chunks(k), x \notin k.last
       PROVE  x + k.len[x] \in Chunks(k) /\ k.prev[x + k.len[x]] = k.len[x]
  <2>1. CASE x = c
    BY <2>1, <1>15, <1>2, <1>3, <1>3a, <1>4, <1>9, <1>11, SMTT(30)
  <2>2. CASE x # c
    <3>1. x \in Chunks(a) /\ x # d /\ x \notin a.last /\ k.len[x] = a.len[x]
      BY <2>2, <1>15, <1>9, <1>11, Zenon
    <3>2. x + a.len[x] \in Chunks(a) /\ a.prev[x + a.len[x]] = a.len[x]
      BY <3>1, <1>1, Zenon DEF TiledBy
    <3>3. x + a.len[x] # next /\ x + a.len[x] # d
      BY <3>1, <2>2, <1>0, <1>2, <1>3, <1>3a
    <3> QED BY <3>1, <3>2, <3>3, <1>9, <1>11, Zenon
  <2> QED BY <2>1, <2>2, Zenon
<1>16. ASSUME NEW x \in Chunks(k), k.prev[x] # 0
       PROVE  x - k.prev[x] \in Chunks(k) /\ k.len[x - k.prev[x]] = k.prev[x]
  <2>1. CASE d \notin a.last /\ x = next
    <3>1. k.prev[x] = a.len[c] + a.len[d] /\ x - (a.len[c] + a.len[d]) = c
      BY <2>1, <1>2, <1>3, <1>3a, <1>11
    <3> QED BY <3>1, <1>9, <1>11, Zenon
  <2>2. CASE ~(d \notin a.last /\ x = next)
    <3>1. x \in Chunks(a) /\ k.prev[x] = a.prev[x] /\ a.prev[x] # 0 /\ x # d
      BY <2>2, <1>16, <1>9, <1>11, Zenon
    <3>2. x - a.prev[x] \in Chunks(a) /\ a.len[x - a.prev[x]] = a.prev[x]
      BY <3>1, <1>1, Zenon DEF TiledBy
    <3>3. x - a.prev[x] # c
      BY <3>1, <3>2, <1>2, <1>3
    <3>4. x - a.prev[x] # d
      <4> SUFFICES ASSUME x - a.prev[x] = d PROVE FALSE
        BY Zenon
      <4>1. x = next
        BY <3>1, <3>2, <1>2, <1>3
      <4>2. d \in a.last
        BY <4>1, <2>2, Zenon
      <4>3. PICK b \in Bases : b + BLOCK_HEADER <= d /\ d + a.len[d] = b + BLOCK_SIZE
        BY <4>2, <1>1, <1>3, Zenon DEF TiledBy
      <4>4. PICK f \in Bases : f + BLOCK_HEADER <= x /\ x + a.len[x] <= f + BLOCK_SIZE
        BY <3>1, <1>1, Zenon DEF TiledBy
      <4> QED BY <4>1, <4>3, <4>4, <3>1, <1>0, <1>2, <1>3, SMTT(30)
    <3> QED BY <3>1, <3>2, <3>3, <3>4, <1>9, Zenon
  <2> QED BY <2>1, <2>2, Zenon
<1>17. TiledBy(k)
  BY <1>13, <1>14, <1>15, <1>16, Zenon DEF TiledBy
<1>18. Founded(k)
  <2>0. Founded(a) /\ Chunks(k) = Chunks(a) \ {d}
    BY <1>9, Zenon DEF Row
  <2>1. \A b \in Bases : d # b + BLOCK_HEADER
    <3> SUFFICES ASSUME NEW b \in Bases, d = b + BLOCK_HEADER PROVE FALSE
      BY Zenon
    <3>1. PICK y \in Bases : y + BLOCK_HEADER <= c /\ c + a.len[c] <= y + BLOCK_SIZE
      BY <1>1, Zenon DEF TiledBy
    <3>2. PICK z \in Bases : z + BLOCK_HEADER <= d /\ d + a.len[d] <= z + BLOCK_SIZE
                            /\ (a.prev[d] = 0 <=> d = z + BLOCK_HEADER)
      BY <1>1, <1>3, Zenon DEF TiledBy
    <3>3. d # z + BLOCK_HEADER
      BY <3>2, <1>3, <1>3a, Zenon
    <3>4. b \in Nat /\ z \in Nat
      BY <1>0, Zenon
    <3>5. (b < z => b + BLOCK_SIZE <= z) /\ (z < b => z + BLOCK_SIZE <= b)
      BY <1>0, Zenon
    <3> QED BY <3>2, <3>3, <3>4, <3>5, <1>0, <1>3a
  <2> QED BY <2>0, <2>1, Zenon DEF Founded
<1>19. Row(k)
  BY <1>12, <1>17, <1>18, Zenon DEF Row
<1>20. d # c /\ next = ChunkNext(a, d) /\ next # d
  BY <1>3, <1>3a DEF ChunkNext
<1>21. \A x \in Chunks(k) : (d \notin a.last /\ x = next) \/ k.prev[x] = a.prev[x]
  BY <1>11, Zenon
<1>22. d \notin a.last => k.prev[next] = a.len[c] + a.len[d]
  <2>1. d \notin a.last => next \in Chunks(k)
    BY <1>4, <1>9, <1>20, Zenon
  <2> QED BY <2>1, <1>11, Zenon
<1> HIDE DEF next
<1>23. /\ Row(k) /\ SameLists(a, k)
       /\ d \in Chunks(a) /\ d # c /\ Chunks(k) = Chunks(a) \ {d}
       /\ k.last = Passed(a.last, d, c)
       /\ k.len[c] = a.len[c] + a.len[d]
  BY <1>3, <1>9, <1>19, <1>20, Zenon
<1>24. \A x \in Chunks(k) : x # c => k.len[x] = a.len[x]
  BY <1>9, Zenon
<1> QED BY <1>20, <1>21, <1>22, <1>23, <1>24, Zenon DEF k

\* A record is its fields.
LEMMA SameRecord ==
    ASSUME NEW a, NEW k, Record(a), Record(k), SameLists(a, k),
           k.len = a.len, k.prev = a.prev, k.last = a.last
    PROVE  k = a
<1>1. \A f \in Fields : k[f] = a[f]
  BY Zenon DEF Fields, SameLists
<1> QED BY <1>1, Zenon DEF Record

\* What is used of the joined chunk.
LEMMA JoinedFacts ==
    ASSUME NEW a, Row(a), NEW c \in Chunks(a), c \notin a.last, NEW d, d = ChunkNext(a, c), d \notin a.used,
           NEW k, k = Joined(a, c, d)
    PROVE  /\ Row(k) /\ SameLists(a, k) /\ Chunks(k) = Chunks(a) \ {d} /\ k.last = Passed(a.last, d, c)
           /\ k.len[c] = a.len[c] + a.len[d]
           /\ \A x \in Chunks(k) : x # c => k.len[x] = a.len[x]
BY JoinedRow

\* The neighbours of a free chunk.
LEMMA NeighbourLemma ==
    ASSUME NEW a, Row(a), NEW c \in Chunks(a)
    PROVE  /\ c \in Nat /\ a.len[c] \in Nat /\ c < ChunkNext(a, c)
           /\ c \notin a.last => /\ ChunkNext(a, c) \in Chunks(a)
                                 /\ ChunkPrev(a, ChunkNext(a, c)) = c
                                 /\ a.prev[ChunkNext(a, c)] # 0
           /\ a.prev[c] # 0 => /\ ChunkPrev(a, c) \in Chunks(a) \ a.last
                               /\ ChunkPrev(a, c) < c /\ ChunkNext(a, ChunkPrev(a, c)) = c
           /\ \A x \in Chunks(a) \ a.last : ChunkNext(a, x) = c => x = ChunkPrev(a, c) /\ a.prev[c] # 0
<1> DEFINE l == c - a.prev[c]
<1>0. /\ CHUNK_HEADER \in Nat \ {0} /\ BLOCK_HEADER \in Nat \ {0} /\ BLOCK_SIZE \in Nat
      /\ Bases \subseteq Nat /\ \A x, y \in Bases : x < y => x + BLOCK_SIZE <= y
  BY BlockAssumption, Zenon
<1>1. /\ \A x \in Chunks(a) : x \in Nat \ {0} /\ a.len[x] \in Nat /\ a.prev[x] \in Nat
      /\ \A x \in Chunks(a) : a.len[x] >= CHUNK_HEADER
      /\ \A x, y \in Chunks(a) : x < y => x + a.len[x] <= y
      /\ TiledBy(a)
  BY Zenon DEF Row, AllocType, TiledBy
<1>2. c \in Nat /\ a.len[c] \in Nat \ {0} /\ a.prev[c] \in Nat /\ c < c + a.len[c]
  BY <1>0, <1>1
<1>3. ASSUME NEW x \in Chunks(a) \ a.last
      PROVE  /\ x + a.len[x] \in Chunks(a) /\ a.prev[x + a.len[x]] = a.len[x]
             /\ a.len[x] # 0 /\ x + a.len[x] - a.len[x] = x
  BY <1>0, <1>1 DEF TiledBy
<1>4. ASSUME a.prev[c] # 0
      PROVE  l \in Chunks(a) /\ a.len[l] = a.prev[c] /\ l < c /\ l + a.len[l] = c /\ l \notin a.last
  <2>1. l \in Chunks(a) /\ a.len[l] = a.prev[c] /\ l < c /\ l + a.len[l] = c
    BY <1>4, <1>1, <1>2 DEF TiledBy
  <2>2. ASSUME l \in a.last PROVE FALSE
    <3> HIDE DEF l
    <3>1. PICK b \in Bases : b + BLOCK_HEADER <= l /\ l + a.len[l] = b + BLOCK_SIZE
      BY <2>1, <2>2, <1>1, Zenon DEF TiledBy
    <3>2. PICK d \in Bases : d + BLOCK_HEADER <= c /\ c + a.len[c] <= d + BLOCK_SIZE
      BY <1>1, Zenon DEF TiledBy
    <3>3. l \in Nat
      BY <2>1, <1>1, Zenon
    <3> QED BY <3>1, <3>2, <3>3, <2>1, <1>0, <1>2
  <2> QED BY <2>1, <2>2, Zenon
<1> HIDE DEF l
<1> QED BY <1>2, <1>3, <1>4, SMTT(30) DEF ChunkNext, ChunkPrev, l

\* The row after the free chunk c was merged with its neighbours.
LEMMA MergedRowLemma ==
    ASSUME NEW a, Row(a), NEW c \in FreeChunks(a)
    PROVE  LET k == MergedRow(a, c)
               m == Merged(a, c)
               r == ChunkNext(a, c)
           IN /\ Row(k) /\ SameLists(a, k) /\ m \in Chunks(k)
              /\ Chunks(k) = {x \in Chunks(a) : /\ RightFree(a, c) => x # r
                                                /\ LeftFree(a, c) => x # c}
              /\ \A x \in Chunks(k) : x # m => k.len[x] = a.len[x] /\ (x \in k.last <=> x \in a.last)
              /\ k.len[m] >= a.len[m]
              /\ RightFree(a, c) => k.len[m] >= a.len[r]
              /\ RightFree(a, c) => /\ ChunkNext(k, m) = ChunkNext(a, r)
                                    /\ m \in k.last <=> r \in a.last
              /\ ~RightFree(a, c) => /\ ChunkNext(k, m) = r
                                     /\ m \in k.last <=> c \in a.last
<1> DEFINE r == ChunkNext(a, c)
           l == ChunkPrev(a, c)
<1>1. /\ c \in Chunks(a) /\ c \notin a.used /\ c \in Nat /\ a.len[c] \in Nat /\ r = c + a.len[c] /\ c < r
      /\ AllocType(a) /\ DOMAIN a.len = Chunks(a) /\ DOMAIN a.prev = Chunks(a) /\ Record(a)
  BY NeighbourLemma, Zenon DEF FreeChunks, Chunks, Row, AllocType, ChunkNext
<1>2. RightFree(a, c) => /\ r \in Chunks(a) /\ r \notin a.used /\ c \notin a.last /\ r \in Nat
                         /\ a.len[r] \in Nat /\ r < ChunkNext(a, r)
  BY <1>1, NeighbourLemma, Zenon DEF RightFree
<1>3. LeftFree(a, c) => /\ l \in Chunks(a) /\ l \notin a.last /\ l \in Nat /\ a.len[l] \in Nat
                        /\ l < c /\ ChunkNext(a, l) = c /\ l + a.len[l] = c
  BY <1>1, NeighbourLemma, Zenon DEF LeftFree, ChunkNext
<1> HIDE DEF r, l
<1>4. CASE ~RightFree(a, c) /\ ~LeftFree(a, c)
  <2> DEFINE k == Relinked(a, c)
  <2>1. MergedRow(a, c) = k /\ Merged(a, c) = c
    BY <1>4, Zenon DEF MergedRow, Merged
  <2>2. /\ Record(k) /\ SameLists(a, k) /\ k.last = a.last /\ k.len = a.len
        /\ c \in a.last => k.prev = a.prev
        /\ c \notin a.last => k.prev = With(a.prev, c + a.len[c], a.len[c])
    BY <1>1, RelinkedFields, Zenon
  <2>3. c \notin a.last => c + a.len[c] \in Chunks(a) /\ a.prev[c + a.len[c]] = a.len[c]
    BY <1>1, Zenon DEF Row, TiledBy
  <2>4. c \notin a.last => With(a.prev, c + a.len[c], a.len[c]) = a.prev
    BY <2>3, <1>1, Zenon DEF With, AllocType
  <2>5. k = a
    <3> HIDE DEF k
    <3>1. k.prev = a.prev
      BY <2>2, <2>4, Zenon
    <3> QED BY <3>1, <2>2, <1>1, SameRecord, Zenon
  <2>6. Chunks(a) = {x \in Chunks(a) : /\ RightFree(a, c) => x # r
                                       /\ LeftFree(a, c) => x # c}
    BY <1>4, Zenon
  <2>7. SameLists(a, a) /\ a.len[c] >= a.len[c] /\ ChunkNext(a, c) = r
    BY <1>1 DEF SameLists, r
  <2> QED BY <2>1, <2>5, <2>6, <2>7, <1>1, <1>4, Zenon DEF r
<1>5. CASE RightFree(a, c) /\ ~LeftFree(a, c)
  <2> DEFINE k == Joined(a, c, r)
  <2>1. MergedRow(a, c) = k /\ Merged(a, c) = c
    BY <1>5, Zenon DEF MergedRow, Merged, Joined, r
  <2>2. /\ Row(k) /\ SameLists(a, k) /\ Chunks(k) = Chunks(a) \ {r}
        /\ k.last = Passed(a.last, r, c) /\ k.len[c] = a.len[c] + a.len[r]
        /\ \A x \in Chunks(k) : x # c => k.len[x] = a.len[x]
    BY <1>1, <1>2, <1>5, JoinedRow DEF r
  <2> HIDE DEF k
  <2>3. /\ c \in Chunks(k) /\ (c \in k.last <=> r \in a.last)
        /\ \A x \in Chunks(k) : x # c => (x \in k.last <=> x \in a.last)
    BY <2>2, <1>1, <1>2, <1>5 DEF Passed
  <2>4. c + k.len[c] = r + a.len[r] /\ k.len[c] >= a.len[c] /\ k.len[c] >= a.len[r]
    BY <2>2, <1>1, <1>2, <1>5
  <2> QED BY <2>1, <2>2, <2>3, <2>4, <1>5, Zenon DEF ChunkNext, r
<1>6. CASE ~RightFree(a, c) /\ LeftFree(a, c)
  <2> DEFINE k == Joined(a, l, c)
  <2>1. MergedRow(a, c) = k /\ Merged(a, c) = l
    BY <1>6, Zenon DEF MergedRow, Merged, Joined, l
  <2>2. /\ Row(k) /\ SameLists(a, k) /\ Chunks(k) = Chunks(a) \ {c}
        /\ k.last = Passed(a.last, c, l) /\ k.len[l] = a.len[l] + a.len[c]
        /\ \A x \in Chunks(k) : x # l => k.len[x] = a.len[x]
    BY <1>1, <1>3, <1>6, JoinedRow
  <2> HIDE DEF k
  <2>3. /\ l \in Chunks(k) /\ (l \in k.last <=> c \in a.last)
        /\ \A x \in Chunks(k) : x # l => (x \in k.last <=> x \in a.last)
    BY <2>2, <1>1, <1>3, <1>6 DEF Passed
  <2>4. l + k.len[l] = r /\ k.len[l] >= a.len[l]
    BY <2>2, <1>1, <1>3, <1>6
  <2> QED BY <2>1, <2>2, <2>3, <2>4, <1>6, Zenon DEF ChunkNext, r
<1>7. CASE RightFree(a, c) /\ LeftFree(a, c)
  <2> DEFINE i == Absorb(a, c, r)
             j == Joined(a, c, r)
             k == Joined(j, l, c)
             q == Relinked(Absorb(i, l, c), l)
  <2>1. MergedRow(a, c) = q /\ Merged(a, c) = l
    BY <1>7, Zenon DEF MergedRow, Merged, l, r
  <2>2. /\ Row(j) /\ SameLists(a, j) /\ Chunks(j) = Chunks(a) \ {r}
        /\ j.last = Passed(a.last, r, c) /\ j.len[c] = a.len[c] + a.len[r]
        /\ \A x \in Chunks(j) : x # c => j.len[x] = a.len[x]
    BY <1>1, <1>2, <1>7, JoinedRow DEF r
  <2> HIDE DEF j
  <2>3. /\ c \in Chunks(j) /\ (c \in j.last <=> r \in a.last)
        /\ \A x \in Chunks(j) : x # c => (x \in j.last <=> x \in a.last)
        /\ l \in Chunks(j) \ j.last /\ j.len[l] = a.len[l] /\ ChunkNext(j, l) = c /\ c \notin j.used
    BY <2>2, <1>1, <1>2, <1>3, <1>7 DEF Passed, ChunkNext, SameLists
  <2>4. /\ Row(k) /\ SameLists(j, k) /\ Chunks(k) = Chunks(j) \ {c}
        /\ k.last = Passed(j.last, c, l) /\ k.len[l] = j.len[l] + j.len[c]
        /\ \A x \in Chunks(k) : x # l => k.len[x] = j.len[x]
    BY <2>2, <2>3, JoinedRow
  <2>5. q = k
    <3> DEFINE u == Absorb(i, l, c)
               v == Absorb(j, l, c)
               next == c + i.len[c]
    <3>1. /\ Record(i) /\ SameLists(a, i) /\ i.last = Passed(a.last, r, c)
          /\ i.len = [x \in Chunks(a) \ {r} |-> IF x = c THEN a.len[c] + a.len[r] ELSE a.len[x]]
          /\ i.prev = [x \in Chunks(a) \ {r} |-> a.prev[x]]
      <4>1. Record(a) /\ c \in DOMAIN a.len /\ r \in DOMAIN a.len /\ c # r /\ DOMAIN a.prev = DOMAIN a.len
        BY <1>1, <1>2, <1>7
      <4>2. LET y == Absorb(a, c, r) IN
            /\ Record(y) /\ SameLists(a, y) /\ y.last = Passed(a.last, r, c)
            /\ y.len = [x \in DOMAIN a.len \ {r} |-> IF x = c THEN a.len[c] + a.len[r] ELSE a.len[x]]
            /\ y.prev = [x \in DOMAIN a.len \ {r} |-> a.prev[x]]
        BY ONLY <4>1, AbsorbFields
      <4> QED BY <4>2, <1>1, Zenon
    <3>2. /\ Record(j) /\ SameLists(i, j) /\ j.last = i.last /\ j.len = i.len
          /\ c \in i.last => j.prev = i.prev
          /\ c \notin i.last => j.prev = With(i.prev, next, i.len[c])
      BY <3>1, RelinkedFields DEF j, Joined
    <3> HIDE DEF i
    <3>3. /\ c \in DOMAIN i.len /\ l \in DOMAIN i.len /\ c # l /\ DOMAIN i.prev = DOMAIN i.len
          /\ DOMAIN j.len = DOMAIN i.len /\ DOMAIN j.prev = DOMAIN j.len
          /\ i.len[l] = a.len[l] /\ i.len[c] = a.len[c] + a.len[r] /\ l + (i.len[l] + i.len[c]) = next
          /\ next # c
      <4>1. DOMAIN j.len = DOMAIN i.len /\ DOMAIN j.prev = DOMAIN j.len
        BY <2>2, <3>2, Zenon DEF Row, AllocType, Chunks
      <4>2. c \in DOMAIN i.len /\ l \in DOMAIN i.len /\ c # l /\ DOMAIN i.prev = DOMAIN i.len
        BY <3>1, <1>1, <1>2, <1>3, <1>7
      <4>3. i.len[l] = a.len[l] /\ i.len[c] = a.len[c] + a.len[r]
        BY <3>1, <1>1, <1>2, <1>3, <1>7
      <4>4. l + (i.len[l] + i.len[c]) = next /\ next # c
        BY <4>3, <1>1, <1>2, <1>3, <1>7
      <4> QED BY <4>1, <4>2, <4>3, <4>4, Zenon
    <3>4. /\ Record(u) /\ SameLists(i, u) /\ u.last = Passed(i.last, c, l)
          /\ u.len = [x \in DOMAIN i.len \ {c} |-> IF x = l THEN i.len[l] + i.len[c] ELSE i.len[x]]
          /\ u.prev = [x \in DOMAIN i.len \ {c} |-> i.prev[x]]
      <4>1. Record(i) /\ c \in DOMAIN i.len /\ l \in DOMAIN i.len /\ l # c /\ DOMAIN i.prev = DOMAIN i.len
        BY <3>1, <3>3, Zenon
      <4> QED BY ONLY <4>1, AbsorbFields
    <3>5. /\ Record(v) /\ SameLists(j, v) /\ v.last = Passed(j.last, c, l)
          /\ v.len = [x \in DOMAIN j.len \ {c} |-> IF x = l THEN j.len[l] + j.len[c] ELSE j.len[x]]
          /\ v.prev = [x \in DOMAIN j.len \ {c} |-> j.prev[x]]
      BY <3>2, <3>3, AbsorbFields, SMTT(30)
    <3> HIDE DEF u, v
    <3>6. v.len = u.len /\ v.last = u.last /\ SameLists(v, u) /\ u.len[l] = i.len[l] + i.len[c]
      BY <3>2, <3>3, <3>4, <3>5 DEF SameLists
    <3>7. /\ Record(q) /\ SameLists(u, q) /\ q.last = u.last /\ q.len = u.len
          /\ l \in u.last => q.prev = u.prev
          /\ l \notin u.last => q.prev = With(u.prev, l + u.len[l], u.len[l])
      BY <3>4, RelinkedFields DEF u
    <3>8. /\ Record(k) /\ SameLists(v, k) /\ k.last = v.last /\ k.len = v.len
          /\ l \in v.last => k.prev = v.prev
          /\ l \notin v.last => k.prev = With(v.prev, l + v.len[l], v.len[l])
      BY <3>5, RelinkedFields DEF v, Joined
    <3> HIDE DEF q, k
    <3>9. q.prev = k.prev
      <4>1. c \in i.last <=> l \in u.last
        <5>1. l \notin i.last
          BY <2>3, <3>2, Zenon
        <5> QED BY <5>1, <3>3, <3>4, Zenon DEF Passed
      <4>2. CASE c \in i.last
        BY <4>1, <4>2, <3>2, <3>4, <3>5, <3>6, <3>7, <3>8
      <4>3. CASE c \notin i.last
        <5>1. q.prev = With(u.prev, next, u.len[l]) /\ k.prev = With(v.prev, next, u.len[l])
          BY <4>1, <4>3, <3>3, <3>6, <3>7, <3>8, Zenon
        <5>2. \A x \in DOMAIN i.len \ {c} : x # next => u.prev[x] = v.prev[x]
          BY <4>3, <3>2, <3>3, <3>4, <3>5 DEF With
        <5>3. DOMAIN u.prev = DOMAIN i.len \ {c} /\ DOMAIN v.prev = DOMAIN i.len \ {c}
          BY <3>3, <3>4, <3>5, Zenon
        <5> QED BY <5>1, <5>2, <5>3, Zenon DEF With
      <4> QED BY <4>2, <4>3, Zenon
    <3>10. SameLists(k, q)
      BY <3>6, <3>7, <3>8, Zenon DEF SameLists
    <3> QED BY <3>6, <3>7, <3>8, <3>9, <3>10, SameRecord, Zenon
  <2> HIDE DEF k
  <2>6. /\ l \in Chunks(k) /\ (l \in k.last <=> r \in a.last)
        /\ \A x \in Chunks(k) : x # l => (x \in k.last <=> x \in a.last) /\ k.len[x] = a.len[x]
    BY <2>2, <2>3, <2>4, <1>1, <1>2, <1>3, <1>7, ZenonT(40) DEF Passed
  <2>7. /\ k.len[l] = a.len[l] + (a.len[c] + a.len[r])
        /\ l + k.len[l] = r + a.len[r] /\ k.len[l] >= a.len[l] /\ k.len[l] >= a.len[r]
    BY <2>2, <2>3, <2>4, <1>1, <1>2, <1>3, <1>7
  <2>8. SameLists(a, k) /\ Chunks(k) = {x \in Chunks(a) : x # r /\ x # c}
    BY <2>2, <2>4, Zenon DEF SameLists
  <2> HIDE DEF q
  <2> QED BY <2>1, <2>4, <2>5, <2>6, <2>7, <2>8, <1>7, Zenon DEF ChunkNext, r
<1> QED BY <1>4, <1>5, <1>6, <1>7, Zenon

-----------------------------------------------------------------------------
(* The allocator between the steps of a call *)

\* No free chunk follows another, chunk x apart.
Pieces(a, x) == \A c \in FreeChunks(a) : c # x /\ RightFree(a, c) => ChunkNext(a, c) = x

\* The lists hold the free chunks with room for the links, chunk x apart.
Lists(a, x) ==
    /\ Distinct(a.recycler)
    /\ a.master \notin Range(a.recycler)
    /\ Range(a.recycler) \union ({a.master} \ {NULL})
         = {c \in FreeChunks(a) : Listable(a, c)} \ {x}

\* The chunk of the master list is the last one of its block.
MasterLast(a) == a.master # NULL => a.master \in a.last

\* The allocator is in order, the free chunk x apart, which is on no list.
Good(a, x) == Row(a) /\ Pieces(a, x) /\ Lists(a, x) /\ MasterLast(a)

\* No allocation but that of c, and no block, is touched.
Spares(a, k, c) ==
    /\ k.used = a.used
    /\ \A x \in a.used : x # c => k.len[x] = a.len[x]
    /\ \A b \in Bases : b + BLOCK_HEADER \in Chunks(k) => b + BLOCK_HEADER \in Chunks(a)

\* Cycling the recycler changes the order of its members and nothing else.
LEMMA CycleLemma ==
    ASSUME NEW a, NEW x, Good(a, x)
    PROVE  LET k == cycle_recycler(a) IN
           Good(k, x) /\ k.len = a.len /\ k.last = a.last /\ k.used = a.used
<1>0. Record(a) /\ a.recycler \in Seq(Nat) /\ Distinct(a.recycler)
  BY Zenon DEF Good, Row, AllocType, Lists
<1>1. CASE Len(a.recycler) < 2
  BY <1>1, Zenon DEF cycle_recycler
<1>2. CASE ~(Len(a.recycler) < 2)
  <2> DEFINE s == a.recycler
             w == CycledHead(a)
             h(i) == IF i = 1 THEN w ELSE IF i = Len(s) THEN 3 - w ELSE i + 1
             t == [i \in 1..Len(s) |-> IF i = 1 THEN s[w] ELSE IF i = Len(s) THEN s[3 - w] ELSE s[i + 1]]
             k == [a EXCEPT !.recycler = t]
  <2>1. cycle_recycler(a) = k
    BY <1>2, Zenon DEF cycle_recycler
  <2>2. /\ Record(k) /\ k.recycler = t /\ k.len = a.len /\ k.prev = a.prev /\ k.last = a.last
        /\ k.used = a.used /\ k.master = a.master
    BY <1>0, Zenon DEF Record, Fields
  <2>3. w \in {1, 2} /\ Len(s) \in Nat /\ Len(s) >= 2 /\ DOMAIN s = 1..Len(s)
    BY <1>0, <1>2 DEF CycledHead
  <2> HIDE DEF w, k
  <2>4. \A i \in 1..Len(s) : t[i] = s[h(i)] /\ h(i) \in 1..Len(s)
    BY <2>3
  <2>5. \A i, j \in 1..Len(s) : h(i) = h(j) => i = j
    BY <2>3
  <2>6. \A i \in 1..Len(s) : \E j \in 1..Len(s) : h(j) = i
    <3> SUFFICES ASSUME NEW i \in 1..Len(s) PROVE \E j \in 1..Len(s) : h(j) = i
      BY Zenon
    <3>1. CASE i = w
      BY <3>1, <2>3
    <3>2. CASE i # w /\ i <= 2
      <4>0. \A n \in Nat : n >= 2 => n # 1 /\ n \in 1..n
        OBVIOUS
      <4>1. Len(s) # 1 /\ Len(s) \in 1..Len(s)
        BY <4>0, <2>3, Zenon
      <4>2. i = 3 - w
        <5>1. i \in {1, 2}
          BY <3>2, <2>3
        <5> QED BY <5>1, <3>2, <2>3
      <4> QED BY <4>1, <4>2, Zenon
    <3>3. CASE i > 2
      <4>1. i - 1 \in 1..Len(s) /\ i - 1 # 1 /\ i - 1 # Len(s) /\ i - 1 + 1 = i
        BY <3>3, <2>3
      <4> QED BY <4>1, Zenon
    <3> QED BY <3>1, <3>2, <3>3, <2>3, SMTT(30)
  <2>7. t \in Seq(Nat) /\ DOMAIN t = 1..Len(s)
    <3>1. \A i \in 1..Len(s) : s[i] \in Nat
      BY <1>0
    <3>2. \A i \in 1..Len(s) : t[i] \in Nat
      BY <3>1, <2>4, Zenon
    <3>3. t = [i \in 1..Len(s) |-> t[i]]
      BY Zenon
    <3> HIDE DEF h, t
    <3>4. t \in [1..Len(s) -> Nat]
      BY <3>2, <3>3, Zenon
    <3> QED BY <3>4, <2>3
  <2> HIDE DEF h, t
  <2>7a. \A i, j \in 1..Len(s) : s[i] = s[j] => i = j
    BY <1>0, <2>3, Zenon DEF Distinct
  <2> HIDE DEF s
  <2>8. Distinct(t)
    <3> SUFFICES ASSUME NEW i \in 1..Len(s), NEW j \in 1..Len(s), t[i] = t[j] PROVE i = j
      BY <2>7, Zenon DEF Distinct
    <3>1. s[h(i)] = s[h(j)] /\ h(i) \in 1..Len(s) /\ h(j) \in 1..Len(s)
      BY <2>4, Zenon
    <3>2. h(i) = h(j)
      BY <3>1, <2>7a, Zenon
    <3> QED BY <3>2, <2>5, Zenon
  <2>9. Range(t) = Range(s)
    <3>1. ASSUME NEW y \in Range(t) PROVE y \in Range(s)
      <4>1. PICK i \in 1..Len(s) : t[i] = y
        BY <2>7, Zenon DEF Range
      <4> QED BY <4>1, <2>3, <2>4, Zenon DEF Range
    <3>2. ASSUME NEW y \in Range(s) PROVE y \in Range(t)
      <4>1. PICK i \in 1..Len(s) : s[i] = y
        BY <2>3, Zenon DEF Range
      <4>2. PICK j \in 1..Len(s) : h(j) = i
        BY <2>6, Zenon
      <4> QED BY <4>1, <4>2, <2>4, <2>7, Zenon DEF Range
    <3> QED BY <3>1, <3>2, Zenon
  <2>10. Chunks(k) = Chunks(a) /\ FreeChunks(k) = FreeChunks(a)
    BY <2>2, Zenon DEF Chunks, FreeChunks
  <2>11. Row(k)
    BY <2>2, <2>7, <2>10, SMTT(30) DEF Good, Row, AllocType, TiledBy, Founded
  <2>12. Lists(k, x)
    <3>1. \A c : Listable(k, c) <=> Listable(a, c)
      BY <2>2, Zenon DEF Listable, DataLen
    <3> QED BY <3>1, <2>2, <2>8, <2>9, <2>10, Zenon DEF Good, Lists, s
  <2>13. Pieces(k, x) /\ MasterLast(k)
    BY <2>2, <2>10, Zenon DEF Good, Pieces, MasterLast, RightFree, ChunkNext
  <2> QED BY <2>1, <2>2, <2>11, <2>12, <2>13, Zenon DEF Good
<1> QED BY <1>1, <1>2, Zenon

\* What an operation on the lists leaves alone.
SameHeap(a, k) == k.len = a.len /\ k.prev = a.prev /\ k.last = a.last /\ k.used = a.used

\* The row depends on the headers only.
LEMMA SameHeapLemma ==
    ASSUME NEW a, NEW k, Row(a), Record(k), SameHeap(a, k), k.master \in Nat, k.recycler \in Seq(Nat)
    PROVE  /\ Row(k) /\ Chunks(k) = Chunks(a) /\ FreeChunks(k) = FreeChunks(a)
           /\ \A c : Listable(k, c) <=> Listable(a, c)
           /\ \A c : RightFree(k, c) <=> RightFree(a, c)
           /\ \A c : ChunkNext(k, c) = ChunkNext(a, c)
<1>1. Chunks(k) = Chunks(a) /\ FreeChunks(k) = FreeChunks(a)
  BY Zenon DEF SameHeap, Chunks, FreeChunks
<1>2. Row(k)
  BY <1>1 DEF SameHeap, Row, AllocType, TiledBy, Founded
<1>3. \A c : ChunkNext(k, c) = ChunkNext(a, c)
  BY Zenon DEF SameHeap, ChunkNext
<1> QED BY <1>1, <1>2, <1>3, Zenon DEF SameHeap, Listable, DataLen, RightFree

\* The allocator after a chunk was taken from the recycler.
LEMMA RemoveFields ==
    ASSUME NEW a, Record(a), a.recycler \in Seq(Nat), Distinct(a.recycler), NEW c \in Range(a.recycler)
    PROVE  LET k == remove_from_recycler(a, c) IN
           /\ Record(k) /\ SameHeap(a, k) /\ k.master = a.master /\ k.recycler \in Seq(Nat)
           /\ Distinct(k.recycler) /\ Range(k.recycler) = Range(a.recycler) \ {c}
<1> DEFINE t == Unlinked(a.recycler, IndexOf(a.recycler, c))
           k == [a EXCEPT !.recycler = t]
<1>1. remove_from_recycler(a, c) = k
  BY Zenon DEF remove_from_recycler
<1>2. t \in Seq(Nat) /\ Distinct(t) /\ Range(t) = Range(a.recycler) \ {c}
  BY RemoveLemma, Zenon
<1> HIDE DEF t
<1>3. Record(k) /\ SameHeap(a, k) /\ k.master = a.master /\ k.recycler = t
  BY Zenon DEF Record, Fields, SameHeap
<1> HIDE DEF k
<1> QED BY <1>1, <1>2, <1>3, Zenon

\* The allocator after a chunk was put in the recycler, if it has the room.
LEMMA AddFields ==
    ASSUME NEW a, Record(a), a.recycler \in Seq(Nat), Distinct(a.recycler), NEW c \in Nat,
           c \notin Range(a.recycler)
    PROVE  LET k == add_to_recycler(a, c) IN
           /\ Record(k) /\ SameHeap(a, k) /\ k.master = a.master /\ k.recycler \in Seq(Nat)
           /\ Distinct(k.recycler)
           /\ Range(k.recycler) = Range(a.recycler) \union {x \in {c} : Listable(a, x)}
<1>1. CASE ~Listable(a, c)
  <2>1. add_to_recycler(a, c) = a
    BY <1>1, Zenon DEF add_to_recycler
  <2>2. Range(a.recycler) = Range(a.recycler) \union {x \in {c} : Listable(a, x)}
    BY <1>1, Zenon
  <2> QED BY <2>1, <2>2, Zenon DEF SameHeap
<1>2. CASE Listable(a, c)
  <2> DEFINE s == a.recycler
             t == IF s = <<>> \/ a.len[c] <= a.len[s[1]] THEN Append(s, c) ELSE <<c>> \o s
             k == [a EXCEPT !.recycler = t]
  <2>1. add_to_recycler(a, c) = k
    BY <1>2, Zenon DEF add_to_recycler
  <2>2. t \in Seq(Nat) /\ Distinct(t) /\ Range(t) = Range(a.recycler) \union {c}
    BY AppendLemma, PrependLemma, Zenon
  <2> HIDE DEF t
  <2>3. Record(k) /\ SameHeap(a, k) /\ k.master = a.master /\ k.recycler = t
    BY Zenon DEF Record, Fields, SameHeap
  <2>4. {x \in {c} : Listable(a, x)} = {c}
    BY <1>2, Zenon
  <2> HIDE DEF k
  <2> QED BY <2>1, <2>2, <2>3, <2>4, Zenon
<1> QED BY <1>1, <1>2, Zenon

\* Merging a free chunk that is on no list with its neighbours puts the
\* allocator in order.
LEMMA MergeLemma ==
    ASSUME NEW a, NEW c \in FreeChunks(a), Good(a, c)
    PROVE  Good(merge_free(a, c), NULL) /\ Spares(a, merge_free(a, c), NULL)
<1> DEFINE r == ChunkNext(a, c)
           l == ChunkPrev(a, c)
           right == RightFree(a, c) /\ Listable(a, r)
           left == LeftFree(a, c) /\ Listable(a, l)
           m == Merged(a, c)
           k == MergedRow(a, c)
<1>0. Row(a) /\ Pieces(a, c) /\ Lists(a, c) /\ MasterLast(a) /\ AllocType(a) /\ Record(a)
  BY Zenon DEF Good, Row, AllocType
<1>1. /\ Row(k) /\ SameLists(a, k) /\ m \in Chunks(k)
      /\ Chunks(k) = {x \in Chunks(a) : /\ RightFree(a, c) => x # r
                                        /\ LeftFree(a, c) => x # c}
      /\ \A x \in Chunks(k) : x # m => k.len[x] = a.len[x] /\ (x \in k.last <=> x \in a.last)
      /\ k.len[m] >= a.len[m]
      /\ RightFree(a, c) => k.len[m] >= a.len[r]
      /\ RightFree(a, c) => /\ ChunkNext(k, m) = ChunkNext(a, r)
                            /\ m \in k.last <=> r \in a.last
      /\ ~RightFree(a, c) => /\ ChunkNext(k, m) = r
                             /\ m \in k.last <=> c \in a.last
  BY <1>0, MergedRowLemma, Zenon
<1>2. /\ c \in Chunks(a) /\ c \notin a.used /\ c \in Nat \ {0} /\ r \in Int /\ c < r
      /\ RightFree(a, c) => r \in FreeChunks(a) /\ r < ChunkNext(a, r) /\ r \in Nat \ {0}
      /\ LeftFree(a, c) => l \in FreeChunks(a) /\ l \notin a.last /\ l < c /\ ChunkNext(a, l) = c /\ l \in Nat \ {0}
      /\ \A x \in Chunks(a) \ a.last : ChunkNext(a, x) = c => x = l /\ a.prev[c] # 0
  <2>1. c \in Chunks(a) /\ c \notin a.used /\ Chunks(a) \subseteq Nat \ {0}
    BY <1>0, Zenon DEF FreeChunks, AllocType
  <2>2. RightFree(a, c) => r \in Chunks(a) /\ r \notin a.used
    BY <1>0, <2>1, NeighbourLemma, Zenon DEF RightFree
  <2>3. LeftFree(a, c) => l \in Chunks(a) /\ l \notin a.used /\ l \notin a.last /\ l < c /\ ChunkNext(a, l) = c
    BY <1>0, <2>1, NeighbourLemma, Zenon DEF LeftFree
  <2>4. c < r /\ r \in Int /\ \A x \in Chunks(a) \ a.last : ChunkNext(a, x) = c => x = l /\ a.prev[c] # 0
    <3>1. c \in Nat /\ a.len[c] \in Nat
      BY <1>0, <2>1, NeighbourLemma, Zenon
    <3> QED BY <3>1, <1>0, <2>1, NeighbourLemma DEF ChunkNext
  <2>5. RightFree(a, c) => r < ChunkNext(a, r)
    BY <1>0, <2>2, NeighbourLemma, Zenon
  <2> QED BY <2>1, <2>2, <2>3, <2>4, <2>5, Zenon DEF FreeChunks
<1>3. m = (IF LeftFree(a, c) THEN l ELSE c) /\ m \in FreeChunks(a) /\ m <= c
  BY <1>2 DEF Merged, FreeChunks
<1> HIDE DEF r, l, m, k
<1>4. Pieces(k, NULL)
  <2> SUFFICES ASSUME NEW x \in FreeChunks(k), RightFree(k, x) PROVE FALSE
    BY Zenon DEF Pieces
  <2>1. x \in Chunks(k) /\ x \in FreeChunks(a) /\ x \notin k.last /\ ChunkNext(k, x) \notin a.used
    BY <1>1, Zenon DEF FreeChunks, SameLists, RightFree
  <2>2. CASE x # m
    <3>1. x \notin a.last /\ ChunkNext(k, x) = ChunkNext(a, x) /\ x # c
      BY <1>1, <1>3, <2>1, <2>2, Zenon DEF ChunkNext
    <3>2. ChunkNext(a, x) = c
      BY <1>0, <2>1, <3>1, Zenon DEF Pieces, RightFree
    <3>3. x = l /\ a.prev[c] # 0
      BY <1>2, <2>1, <3>1, <3>2, Zenon DEF FreeChunks
    <3>4. LeftFree(a, c)
      BY <3>3, <2>1, Zenon DEF LeftFree, FreeChunks, l
    <3> QED BY <3>3, <3>4, <2>2, <1>3, Zenon
  <2>3. CASE x = m /\ RightFree(a, c)
    <3>1. r \in FreeChunks(a) /\ r # c /\ RightFree(a, r) /\ ChunkNext(a, r) # c
      BY <1>1, <1>2, <2>1, <2>3 DEF RightFree
    <3> QED BY <3>1, <1>0, Zenon DEF Pieces
  <2>4. CASE x = m /\ ~RightFree(a, c)
    BY <1>1, <2>1, <2>4, Zenon DEF RightFree, r
  <2> QED BY <2>2, <2>3, <2>4, Zenon
<1> DEFINE Old == {x \in FreeChunks(a) : Listable(a, x)} \ {c}
           New == {x \in FreeChunks(k) : Listable(k, x)}
<1>5. \A x : x # m => (x \in New <=> x \in Old /\ (RightFree(a, c) => x # r))
  <2> SUFFICES ASSUME NEW x, x # m PROVE x \in New <=> x \in Old /\ (RightFree(a, c) => x # r)
    BY Zenon
  <2>1. x \in FreeChunks(k) <=> x \in FreeChunks(a) /\ (RightFree(a, c) => x # r) /\ x # c
    BY <1>1, <1>3, Zenon DEF FreeChunks, SameLists
  <2>2. x \in FreeChunks(k) => (Listable(k, x) <=> Listable(a, x))
    BY <1>1, Zenon DEF FreeChunks, Listable, DataLen
  <2> QED BY <2>1, <2>2, Zenon
<1>6. /\ m \in New <=> Listable(k, m)
      /\ m \in Old <=> left
      /\ left => Listable(k, m)
      /\ right => Listable(k, m)
      /\ RightFree(a, c) => (r \in Old <=> right) /\ r # m
  <2>1. m \in FreeChunks(k)
    BY <1>1, <1>3, Zenon DEF FreeChunks, SameLists
  <2>2. /\ CHUNK_HEADER \in Nat /\ FREE_SIZE \in Nat
        /\ \A x \in Chunks(a) : a.len[x] \in Nat
        /\ \A x \in Chunks(k) : k.len[x] \in Nat
    BY <1>0, <1>1, BlockAssumption, Zenon DEF Row, AllocType
  <2>3. (Listable(a, m) => Listable(k, m)) /\ (RightFree(a, c) /\ Listable(a, r) => Listable(k, m))
    BY <2>2, <1>1, <1>2, <1>3 DEF Listable, DataLen, FreeChunks
  <2> QED BY <2>1, <2>3, <1>2, <1>3
<1>7. /\ Range(a.recycler) \union ({a.master} \ {NULL}) = Old
      /\ Distinct(a.recycler) /\ a.master \notin Range(a.recycler)
      /\ a.recycler \in Seq(Nat) /\ a.master \in Nat
  BY <1>0, Zenon DEF Lists, AllocType
<1>8. /\ Record(k) /\ k.used = a.used /\ k.master = a.master /\ k.recycler = a.recycler
      /\ Chunks(k) \subseteq Chunks(a) /\ m # NULL
  BY <1>1, <1>3, <1>2, Zenon DEF Row, AllocType, SameLists, NULL
<1> HIDE DEF Old, New, right, left
\* A list operation on k that gives the lists of New leaves all in order.
<1>9. ASSUME NEW n, Record(n), SameHeap(k, n), n.master \in Nat, n.recycler \in Seq(Nat),
             Distinct(n.recycler), n.master \notin Range(n.recycler),
             Range(n.recycler) \union ({n.master} \ {NULL}) = New, MasterLast(n)
      PROVE  Good(n, NULL) /\ Spares(a, n, NULL)
  <2>1. /\ Row(n) /\ Chunks(n) = Chunks(k) /\ FreeChunks(n) = FreeChunks(k)
        /\ \A x : Listable(n, x) <=> Listable(k, x)
        /\ \A x : RightFree(n, x) <=> RightFree(k, x)
        /\ \A x : ChunkNext(n, x) = ChunkNext(k, x)
    BY <1>1, <1>9, SameHeapLemma, Zenon
  <2>2. Pieces(n, NULL)
    BY <2>1, <1>4, Zenon DEF Pieces
  <2>3. NULL \notin New
    BY <1>1, Zenon DEF New, FreeChunks, Row, AllocType, NULL
  <2>4. Lists(n, NULL)
    BY <2>1, <2>3, <1>9, Zenon DEF Lists, New
  <2>5. Spares(a, n, NULL)
    <3>1. n.used = a.used /\ n.len = k.len
      BY <1>8, <1>9, Zenon DEF SameHeap
    <3>2. \A x \in a.used : k.len[x] = a.len[x]
      <4>1. \A x \in a.used : x \in Chunks(k) /\ x # m
        BY <1>1, <1>2, <1>3, <1>0, Zenon DEF AllocType, FreeChunks
      <4> QED BY <4>1, <1>1, Zenon
    <3> QED BY <3>1, <3>2, <2>1, <1>8, Zenon DEF Spares
  <2> QED BY <2>1, <2>2, <2>4, <2>5, <1>9, Zenon DEF Good
<1>10. CASE right /\ r = a.master
  <2>0. RightFree(a, c) /\ r # NULL /\ r \in Old /\ r \in a.last
    BY <1>10, <1>0, <1>2, <1>6, Zenon DEF right, MasterLast, NULL
  <2> DEFINE n == IF left THEN remove_from_recycler(k, l) ELSE k
             q == [n EXCEPT !.master = m]
  <2>1. merge_free(a, c) = q
    BY <1>10, Zenon DEF merge_free, right, left, r, l, m, k
  <2>2. left => m = l /\ l \in Range(a.recycler) /\ l # a.master
    BY <1>3, <1>6, <1>7, <1>10, <2>0, Zenon DEF left
  <2>3. /\ Record(n) /\ SameHeap(k, n) /\ n.recycler \in Seq(Nat) /\ Distinct(n.recycler)
        /\ Range(n.recycler) = Range(a.recycler) \ {m}
    <3>1. CASE left
      BY <3>1, <2>2, <1>7, <1>8, RemoveFields
    <3>2. CASE ~left
      <4>1. m \notin Range(a.recycler)
        BY <3>2, <1>6, <1>7, Zenon
      <4> QED BY <3>2, <4>1, <1>7, <1>8, Zenon DEF SameHeap
    <3> QED BY <3>1, <3>2, Zenon
  <2> HIDE DEF n
  <2>4. Record(q) /\ SameHeap(k, q) /\ q.recycler = n.recycler /\ q.master = m
    BY <2>3, Zenon DEF Record, Fields, SameHeap
  <2> HIDE DEF q
  <2>5. Range(q.recycler) \union ({q.master} \ {NULL}) = New
    <3>1. \A x : x # m => (x \in Range(a.recycler) <=> x \in New)
      BY <1>5, <1>7, <1>10, <2>0, Zenon
    <3>2. m \in New
      BY <1>6, <1>10, Zenon
    <3> QED BY <3>1, <3>2, <2>3, <2>4, <1>8, Zenon
  <2>6. MasterLast(q)
    BY <2>0, <2>4, <1>1, Zenon DEF MasterLast, SameHeap
  <2>7. m \in Nat /\ m \notin Range(q.recycler)
    BY <1>1, <2>3, <2>4, Zenon DEF Row, AllocType
  <2> QED BY <2>1, <2>3, <2>4, <2>5, <2>6, <2>7, <1>9, Zenon
<1>11. CASE ~(right /\ r = a.master)
  <2> DEFINE n == IF right THEN remove_from_recycler(k, r) ELSE k
             q == IF left THEN n ELSE add_to_recycler(n, m)
  <2>1. merge_free(a, c) = q
    BY <1>11, Zenon DEF merge_free, right, left, r, l, m, k
  <2>2. /\ right => r \in Range(a.recycler)
        /\ RightFree(a, c) => r # a.master
        /\ m # a.master
    <3>1. right => RightFree(a, c) /\ r \in Range(a.recycler)
      BY <1>6, <1>7, <1>11, Zenon DEF right
    <3>2. RightFree(a, c) /\ r = a.master => right
      BY <1>2, <1>6, <1>7, Zenon DEF NULL
    <3>3. ASSUME m = a.master PROVE FALSE
      <4>1. left /\ a.master # NULL
        BY <3>3, <1>6, <1>7, <1>8, Zenon
      <4> QED BY <4>1, <3>3, <1>0, <1>2, <1>3, Zenon DEF left, MasterLast
    <3> QED BY <3>1, <3>2, <3>3, <1>11, Zenon
  <2>3. /\ Record(n) /\ SameHeap(k, n) /\ n.recycler \in Seq(Nat) /\ Distinct(n.recycler)
        /\ Range(n.recycler) = {x \in Range(a.recycler) : right => x # r}
        /\ n.master = a.master
    <3>1. CASE right
      <4>1. LET p == remove_from_recycler(k, r) IN
            /\ Record(p) /\ SameHeap(k, p) /\ p.master = k.master /\ p.recycler \in Seq(Nat)
            /\ Distinct(p.recycler) /\ Range(p.recycler) = Range(k.recycler) \ {r}
        BY <3>1, <2>2, <1>7, <1>8, RemoveFields, Zenon
      <4>2. n = remove_from_recycler(k, r)
        BY <3>1, Zenon
      <4>3. Range(k.recycler) \ {r} = {x \in Range(a.recycler) : right => x # r}
        BY <3>1, <1>8, Zenon
      <4> HIDE DEF n
      <4> QED BY <4>1, <4>2, <4>3, <1>8, Zenon
    <3>2. CASE ~right
      BY <3>2, <1>7, <1>8, Zenon DEF SameHeap
    <3> QED BY <3>1, <3>2, Zenon
  <2> HIDE DEF n
  <2>4. \A x : x # m => (x \in New <=> x \in Range(n.recycler) \union ({a.master} \ {NULL}))
    <3>1. RightFree(a, c) /\ ~right => r \notin Old
      BY <1>6, Zenon
    <3>2. right => RightFree(a, c)
      BY Zenon DEF right
    <3> QED BY <3>1, <3>2, <2>2, <2>3, <1>5, <1>7, Zenon
  <2>5. m \in Range(n.recycler) <=> left
    <3>1. m # r \/ ~right
      BY <1>6, Zenon DEF right
    <3> QED BY <3>1, <2>2, <2>3, <1>6, <1>7, Zenon
  <2>6. /\ Record(q) /\ SameHeap(k, q) /\ q.recycler \in Seq(Nat) /\ Distinct(q.recycler)
        /\ q.master = a.master
        /\ Range(q.recycler) = Range(n.recycler) \union {x \in {m} : Listable(k, x)}
    <3>1. CASE left
      <4>1. Listable(k, m) /\ m \in Range(n.recycler)
        BY <3>1, <2>5, <1>6, Zenon
      <4>2. Range(n.recycler) = Range(n.recycler) \union {x \in {m} : Listable(k, x)}
        BY <4>1, Zenon
      <4> QED BY <3>1, <4>2, <2>3, Zenon
    <3>2. CASE ~left
      <4>1. m \notin Range(n.recycler) /\ m \in Nat
        BY <3>2, <2>5, <1>1, Zenon DEF Row, AllocType
      <4>2. LET p == add_to_recycler(n, m) IN
            /\ Record(p) /\ SameHeap(n, p) /\ p.master = n.master /\ p.recycler \in Seq(Nat)
            /\ Distinct(p.recycler)
            /\ Range(p.recycler) = Range(n.recycler) \union {x \in {m} : Listable(n, x)}
        BY <4>1, <2>3, AddFields, Zenon
      <4>3. \A x : Listable(n, x) <=> Listable(k, x)
        BY <2>3, Zenon DEF SameHeap, Listable, DataLen
      <4>4. q = add_to_recycler(n, m)
        BY <3>2, Zenon
      <4> HIDE DEF q
      <4> QED BY <4>2, <4>3, <4>4, <2>3, Zenon DEF SameHeap
    <3> QED BY <3>1, <3>2, Zenon
  <2> HIDE DEF q
  <2>7. Range(q.recycler) \union ({q.master} \ {NULL}) = New
    BY <2>2, <2>4, <2>5, <2>6, <1>6, Zenon
  <2>8. MasterLast(q)
    <3> SUFFICES ASSUME a.master # NULL PROVE a.master \in q.last
      BY <2>6, Zenon DEF MasterLast
    <3>1. a.master \in Old /\ a.master \in a.last
      BY <1>0, <1>7, Zenon DEF MasterLast
    <3>2. a.master \in Chunks(k)
      BY <3>1, <2>2, <1>1, <1>0, Zenon DEF Old, FreeChunks
    <3> QED BY <3>1, <3>2, <2>2, <2>6, <1>1, Zenon DEF SameHeap
  <2>9. a.master \notin Range(q.recycler)
    BY <2>2, <2>3, <2>6, <1>7, Zenon
  <2> QED BY <2>1, <2>6, <2>7, <2>8, <2>9, <1>7, <1>9, Zenon
<1> QED BY <1>10, <1>11, Zenon

\* Rounding a size up to the alignment.
LEMMA AlignLemma ==
    ASSUME NEW n \in Nat PROVE ALIGN_SIZE(n) \in Nat /\ ALIGN_SIZE(n) >= n
<1>1. ALIGN_AMOUNT \in Nat \ {0}
  BY BlockAssumption, Zenon
<1>2. (-n) % ALIGN_AMOUNT \in 0..(ALIGN_AMOUNT - 1)
  BY <1>1
<1> QED BY <1>1, <1>2 DEF ALIGN_SIZE

\* No block starts inside a chunk.
LEMMA InnerLemma ==
    ASSUME NEW a, Row(a), NEW c \in Chunks(a), NEW n \in Nat, 0 < n, n < a.len[c], NEW b \in Bases
    PROVE  c + n # b + BLOCK_HEADER
<1>0. /\ BLOCK_HEADER \in Nat \ {0} /\ BLOCK_SIZE \in Nat /\ Bases \subseteq Nat
      /\ \A x, y \in Bases : x < y => x + BLOCK_SIZE <= y
  BY BlockAssumption, Zenon
<1>1. PICK d \in Bases : d + BLOCK_HEADER <= c /\ c + a.len[c] <= d + BLOCK_SIZE
  BY Zenon DEF Row, TiledBy
<1>2. c \in Nat /\ a.len[c] \in Nat /\ b \in Nat /\ d \in Nat
  BY <1>0, Zenon DEF Row, AllocType
<1> QED BY <1>0, <1>1, <1>2

\* With all free chunks merged, none has a free neighbour, and none is on a list
\* that is not free.
LEMMA GoodLemma ==
    ASSUME NEW a, Good(a, NULL)
    PROVE  /\ \A x \in FreeChunks(a) : ~RightFree(a, x)
           /\ NULL \notin Chunks(a) /\ NULL \notin Range(a.recycler)
           /\ Range(a.recycler) \union ({a.master} \ {NULL}) = {x \in FreeChunks(a) : Listable(a, x)}
           /\ Distinct(a.recycler) /\ a.master \notin Range(a.recycler)
           /\ a.recycler \in Seq(Nat) /\ a.master \in Nat /\ Record(a) /\ Row(a) /\ MasterLast(a)
<1>1. Row(a) /\ AllocType(a) /\ NULL \notin Chunks(a)
  BY Zenon DEF Good, Row, AllocType, NULL
<1>2. ASSUME NEW x \in FreeChunks(a), RightFree(a, x) PROVE FALSE
  <2>1. ChunkNext(a, x) = NULL /\ x \in Chunks(a)
    BY <1>1, <1>2, Zenon DEF Good, Pieces, FreeChunks
  <2> QED BY <2>1, <1>1, NeighbourLemma DEF NULL
<1>3. Range(a.recycler) \union ({a.master} \ {NULL}) = {x \in FreeChunks(a) : Listable(a, x)}
  BY <1>1, Zenon DEF Good, Lists, FreeChunks
<1> QED BY <1>1, <1>2, <1>3, Zenon DEF Good, Lists, AllocType, FreeChunks

\* Splitting a free chunk takes it off its list; what is left over takes its place.
LEMMA SplitFreeLemma ==
    ASSUME NEW a, Good(a, NULL), NEW c \in FreeChunks(a), NEW size \in Nat
    PROVE  LET k == split_free_chunk(a, c, size) IN
           /\ Good(k, c) /\ c \in FreeChunks(k) /\ Spares(a, k, NULL)
           /\ Chunks(a) \subseteq Chunks(k)
           /\ \A x \in Chunks(a) : x # c => k.len[x] = a.len[x] /\ (x \in k.last <=> x \in a.last)
           /\ DataLen(a, c) >= size => DataLen(k, c) >= size
           /\ k.len[c] = a.len[c] \/ DataLen(k, c) >= size
<1> DEFINE n == ALIGN_SIZE(size) + CHUNK_HEADER
           k == split_free_chunk(a, c, size)
           e == c + n
           Old == {x \in FreeChunks(a) : Listable(a, x)}
<1>0. CHUNK_HEADER \in Nat \ {0} /\ FREE_SIZE \in Nat \ {0} /\ ALIGN_SIZE(size) \in Nat /\ ALIGN_SIZE(size) >= size
  BY BlockAssumption, AlignLemma, Zenon
<1>1. /\ \A x \in FreeChunks(a) : ~RightFree(a, x)
      /\ NULL \notin Chunks(a) /\ NULL \notin Range(a.recycler)
      /\ Range(a.recycler) \union ({a.master} \ {NULL}) = Old
      /\ Distinct(a.recycler) /\ a.master \notin Range(a.recycler)
      /\ a.recycler \in Seq(Nat) /\ a.master \in Nat /\ Record(a) /\ Row(a) /\ MasterLast(a)
  BY GoodLemma, Zenon
<1>2. c \in Chunks(a) /\ c \notin a.used /\ c \in Nat /\ a.len[c] \in Nat /\ c # NULL /\ n \in Nat
  BY <1>0, <1>1, NeighbourLemma DEF FreeChunks
<1> HIDE DEF Old
<1>3. CASE DataLen(a, c) < n + FREE_SIZE
  <2>1. k = Unlist(a, c)
    BY <1>3, Zenon DEF split_free_chunk
  <2> HIDE DEF k
  <2>2. /\ Record(k) /\ SameHeap(a, k) /\ k.recycler \in Seq(Nat) /\ Distinct(k.recycler)
        /\ k.master \in Nat /\ k.master \notin Range(k.recycler)
        /\ k.master = a.master \/ k.master = NULL
        /\ Range(k.recycler) \union ({k.master} \ {NULL}) = Old \ {c}
    <3>1. CASE c = a.master
      <4>1. k = [a EXCEPT !.master = NULL]
        BY <3>1, <2>1, Zenon DEF Unlist, pop_master
      <4>2. Record(k) /\ SameHeap(a, k) /\ k.recycler = a.recycler /\ k.master = NULL
        BY <4>1, <1>1, Zenon DEF Record, Fields, SameHeap
      <4> QED BY <3>1, <4>2, <1>1, <1>2 DEF NULL
    <3>2. CASE c # a.master /\ Listable(a, c)
      <4>1. c \in Range(a.recycler)
        BY <3>2, <1>1, Zenon DEF Old
      <4>2. k = remove_from_recycler(a, c)
        BY <3>2, <2>1, Zenon DEF Unlist
      <4>3. /\ Record(k) /\ SameHeap(a, k) /\ k.master = a.master /\ k.recycler \in Seq(Nat)
            /\ Distinct(k.recycler) /\ Range(k.recycler) = Range(a.recycler) \ {c}
        BY <4>1, <4>2, <1>1, RemoveFields, Zenon
      <4> QED BY <3>2, <4>3, <1>1, Zenon
    <3>3. CASE c # a.master /\ ~Listable(a, c)
      <4>1. k = a /\ Old = Old \ {c}
        BY <3>3, <2>1, Zenon DEF Unlist, Old
      <4> QED BY <4>1, <1>1, Zenon DEF SameHeap
    <3> QED BY <3>1, <3>2, <3>3, Zenon
  <2>3. /\ Row(k) /\ Chunks(k) = Chunks(a) /\ FreeChunks(k) = FreeChunks(a)
        /\ \A x : Listable(k, x) <=> Listable(a, x)
        /\ \A x : RightFree(k, x) <=> RightFree(a, x)
    BY <2>2, <1>1, SameHeapLemma, Zenon
  <2>4. Pieces(k, c)
    BY <2>3, <1>1, Zenon DEF Pieces
  <2>5. Lists(k, c) /\ MasterLast(k)
    BY <2>2, <2>3, <1>1, Zenon DEF Lists, MasterLast, Old, SameHeap
  <2>6. Spares(a, k, NULL) /\ k.len = a.len /\ k.last = a.last /\ DataLen(k, c) = DataLen(a, c)
    BY <2>2, <2>3, Zenon DEF Spares, SameHeap, DataLen
  <2> QED BY <2>3, <2>4, <2>5, <2>6, Zenon DEF Good, k
<1>4. CASE ~(DataLen(a, c) < n + FREE_SIZE)
  <2> DEFINE u == Relist(a, c, e)
  <2>0. n >= CHUNK_HEADER /\ n + CHUNK_HEADER + FREE_SIZE <= a.len[c] /\ c \in Old /\ e \in Nat /\ e # c /\ e # NULL
    <3>1. n >= CHUNK_HEADER /\ n + CHUNK_HEADER + FREE_SIZE <= a.len[c] /\ e \in Nat /\ e # c /\ e # NULL
      BY <1>0, <1>2, <1>4 DEF DataLen, NULL
    <3>2. Listable(a, c)
      BY <1>0, <1>2, <1>4 DEF DataLen, Listable
    <3> QED BY <3>1, <3>2, Zenon DEF Old
  <2>0a. e \notin Chunks(a)
    <3>1. e # c /\ n < a.len[c] /\ 0 < n
      BY <2>0, <1>0, <1>2
    <3>2. \A x, y \in Chunks(a) : x < y => x + a.len[x] <= y
      BY <1>1, Zenon DEF Row, TiledBy
    <3> QED BY <3>1, <3>2, <1>2
  <2>1. k = Carve(u, c, n)
    BY <1>4, Zenon DEF split_free_chunk
  <2> HIDE DEF k
  <2>2. /\ Record(u) /\ SameHeap(a, u) /\ u.recycler \in Seq(Nat) /\ Distinct(u.recycler)
        /\ u.master \in Nat /\ u.master \notin Range(u.recycler)
        /\ u.master = IF c = a.master THEN e ELSE a.master
        /\ Range(u.recycler) \union ({u.master} \ {NULL}) = (Old \ {c}) \union {e}
    <3>0. e \notin Old
      BY <2>0a, Zenon DEF Old, FreeChunks
    <3>1. CASE c = a.master
      <4>1. u = [a EXCEPT !.master = e]
        BY <3>1, Zenon DEF Relist
      <4>2. Record(u) /\ SameHeap(a, u) /\ u.recycler = a.recycler /\ u.master = e
        BY <4>1, <1>1, Zenon DEF Record, Fields, SameHeap
      <4> HIDE DEF u, e
      <4> QED BY <3>0, <3>1, <4>2, <2>0, <1>1, Zenon
    <3>2. CASE c # a.master
      <4> DEFINE t == [a.recycler EXCEPT ![IndexOf(a.recycler, c)] = e]
      <4>1. c \in Range(a.recycler) /\ e \notin Range(a.recycler)
        BY <3>0, <3>2, <2>0, <1>1, Zenon
      <4>2. u = [a EXCEPT !.recycler = t]
        BY <3>2, Zenon DEF Relist
      <4>3. t \in Seq(Nat) /\ Distinct(t) /\ Range(t) = (Range(a.recycler) \ {c}) \union {e}
        <5> HIDE DEF e
        <5>1. e \in Nat /\ c \in Nat
          BY <2>0, <1>2, Zenon
        <5> QED BY <5>1, <4>1, <1>1, ReplaceLemma, SMTT(30)
      <4> HIDE DEF t
      <4>4. Record(u) /\ SameHeap(a, u) /\ u.recycler = t /\ u.master = a.master
        BY <4>2, <1>1, Zenon DEF Record, Fields, SameHeap
      <4>5. a.master # e
        BY <3>0, <2>0, <1>1, Zenon
      <4> HIDE DEF u, e
      <4> QED BY <3>0, <3>2, <4>3, <4>4, <4>5, <2>0, <1>1, Zenon
    <3> QED BY <3>1, <3>2, Zenon
  <2> HIDE DEF u
  <2>3. Row(u) /\ Chunks(u) = Chunks(a)
    BY <2>2, <1>1, SameHeapLemma, Zenon
  <2>4. /\ Row(k) /\ SameLists(u, k)
        /\ Chunks(k) = Chunks(a) \union {e}
        /\ k.last = Passed(a.last, c, e)
        /\ k.len[c] = n /\ k.len[e] = a.len[c] - n
        /\ \A x \in Chunks(a) : x # c => k.len[x] = a.len[x]
    <3>1. u.len = a.len /\ u.last = a.last
      BY <2>2, Zenon DEF SameHeap
    <3>2. c \in Chunks(u) /\ n \in Nat /\ n >= CHUNK_HEADER /\ n + CHUNK_HEADER <= u.len[c]
      BY <3>1, <2>0, <2>3, <1>0, <1>2
    <3> HIDE DEF n
    <3> QED BY <3>1, <3>2, <2>1, <2>3, CarveRow
  <2>5. /\ k.used = a.used /\ k.master = u.master /\ k.recycler = u.recycler
        /\ c \in FreeChunks(k) /\ FreeChunks(k) = FreeChunks(a) \union {e}
    <3>1. e \notin a.used
      BY <2>0a, <1>1, Zenon DEF Row, AllocType
    <3> QED BY <3>1, <2>2, <2>4, <1>2 DEF SameLists, SameHeap, FreeChunks
  <2>6. /\ \A x \in Chunks(a) : x # c => (x \in k.last <=> x \in a.last)
        /\ e \in k.last <=> c \in a.last
    BY <2>0, <2>0a, <2>4, <1>1, Zenon DEF Passed, Row, AllocType
  <2>7. Pieces(k, c)
    <3> SUFFICES ASSUME NEW x \in FreeChunks(k), x # c, RightFree(k, x) PROVE FALSE
      BY Zenon DEF Pieces
    <3>1. CASE x = e
      <4>1. ChunkNext(k, e) = ChunkNext(a, c)
        BY <2>0, <2>4, <1>0, <1>2 DEF ChunkNext
      <4> QED BY <3>1, <4>1, <2>5, <2>6, <1>1, Zenon DEF RightFree
    <3>2. CASE x # e
      <4>1. x \in FreeChunks(a) /\ x \in Chunks(a) /\ ChunkNext(k, x) = ChunkNext(a, x)
        BY <3>2, <2>4, <2>5, Zenon DEF FreeChunks, ChunkNext
      <4> QED BY <4>1, <2>5, <2>6, <1>1, Zenon DEF RightFree
    <3> QED BY <3>1, <3>2, Zenon
  <2>8. Lists(k, c)
    <3>1. Listable(k, e)
      BY <2>0, <2>4, <1>0, <1>2 DEF Listable, DataLen
    <3>2. \A x \in FreeChunks(a) : x # c => (Listable(k, x) <=> Listable(a, x))
      BY <2>4, Zenon DEF Listable, DataLen, FreeChunks
    <3>3. {x \in FreeChunks(k) : Listable(k, x)} \ {c} = (Old \ {c}) \union {e}
      BY <3>1, <3>2, <2>0, <2>5, Zenon DEF Old
    <3> QED BY <3>3, <2>2, <2>5, Zenon DEF Lists
  <2>9. MasterLast(k)
    <3>1. CASE c = a.master
      BY <3>1, <2>2, <2>5, <2>6, <1>1, <1>2, Zenon DEF MasterLast
    <3>2. CASE c # a.master /\ a.master # NULL
      <4>1. a.master \in Chunks(a)
        BY <3>2, <1>1, Zenon DEF Old, FreeChunks
      <4> QED BY <3>2, <4>1, <2>2, <2>5, <2>6, <1>1, Zenon DEF MasterLast
    <3>3. CASE c # a.master /\ a.master = NULL
      BY <3>3, <2>2, <2>5, Zenon DEF MasterLast
    <3> QED BY <3>1, <3>2, <3>3, Zenon
  <2>10. Spares(a, k, NULL)
    <3>1. 0 < n /\ n < a.len[c]
      BY <2>0, <1>0, <1>2
    <3>2. \A b \in Bases : e # b + BLOCK_HEADER
      <4> HIDE DEF n
      <4> QED BY <3>1, <1>1, <1>2, InnerLemma, Zenon
    <3>3. \A x \in a.used : k.len[x] = a.len[x]
      BY <2>4, <1>1, <1>2, Zenon DEF Row, AllocType
    <3> QED BY <3>2, <3>3, <2>4, <2>5, Zenon DEF Spares
  <2>11. DataLen(k, c) >= size
    BY <2>4, <1>0, <1>2 DEF DataLen
  <2> QED BY <2>4, <2>5, <2>6, <2>7, <2>8, <2>9, <2>10, <2>11, Zenon DEF Good, k
<1> QED BY <1>3, <1>4, Zenon

\* A block whose first chunk is not there has no chunk at all.
LEMMA FreshLemma ==
    ASSUME NEW a, Row(a), NEW b \in Bases, b + BLOCK_HEADER \notin Chunks(a)
    PROVE  \A x \in Chunks(a) : x + a.len[x] <= b \/ b + BLOCK_SIZE <= x
<1> SUFFICES ASSUME NEW x \in Chunks(a) PROVE x + a.len[x] <= b \/ b + BLOCK_SIZE <= x
  BY Zenon
<1>0. /\ BLOCK_HEADER \in Nat \ {0} /\ BLOCK_SIZE \in Nat /\ CHUNK_HEADER \in Nat \ {0}
      /\ \A y, z \in Bases : y < z => y + BLOCK_SIZE <= z
  BY BlockAssumption, Zenon
<1>1. x \in Nat /\ a.len[x] \in Nat /\ a.len[x] >= CHUNK_HEADER
  BY Zenon DEF Row, AllocType, TiledBy
<1>2. PICK d \in Bases : d + BLOCK_HEADER <= x /\ x + a.len[x] <= d + BLOCK_SIZE
  BY Zenon DEF Row, TiledBy
<1>3. b \in Nat /\ d \in Nat
  BY BlockAssumption, Zenon
<1>4. d # b
  <2> SUFFICES ASSUME d = b PROVE FALSE
    BY Zenon
  <2>1. b + BLOCK_HEADER <= x /\ x < b + BLOCK_SIZE
    BY <1>0, <1>1, <1>2, <1>3
  <2> QED BY <2>1, Zenon DEF Row, Founded
<1>5. (b < d => b + BLOCK_SIZE <= d) /\ (d < b => d + BLOCK_SIZE <= b)
  BY <1>0, Zenon
<1> QED BY <1>0, <1>1, <1>2, <1>3, <1>4, <1>5

\* A free chunk that is on no list becomes a used one.
LEMMA UsedLemma ==
    ASSUME NEW a, NEW c \in FreeChunks(a), Good(a, c)
    PROVE  LET k == Used(a, c) IN
           Good(k, NULL) /\ k.len = a.len /\ k.used = a.used \union {c}
<1> DEFINE k == Used(a, c)
<1>0. Row(a) /\ Pieces(a, c) /\ Lists(a, c) /\ MasterLast(a) /\ AllocType(a) /\ Record(a) /\ c \in Chunks(a)
  BY Zenon DEF Good, Row, AllocType, FreeChunks
<1>1. /\ Record(k) /\ k.len = a.len /\ k.prev = a.prev /\ k.last = a.last
      /\ k.master = a.master /\ k.recycler = a.recycler /\ k.used = a.used \union {c}
  BY <1>0, Zenon DEF Used, Record, Fields
<1> HIDE DEF k
<1>2. Chunks(k) = Chunks(a) /\ FreeChunks(k) = FreeChunks(a) \ {c}
  BY <1>1, Zenon DEF Chunks, FreeChunks
<1>3. AllocType(k)
  BY <1>0, <1>1, <1>2, Zenon DEF AllocType
<1>4. TiledBy(k)
  <2> TiledBy(a)
    BY <1>0, Zenon DEF Row
  <2> QED BY <1>1, <1>2 DEF TiledBy
<1>4a. Founded(k)
  BY <1>0, <1>2, Zenon DEF Founded, Row
<1>5. Pieces(k, NULL)
  BY <1>0, <1>1, <1>2, Zenon DEF Pieces, RightFree, ChunkNext
<1>6. Lists(k, NULL)
  <2>1. NULL \notin Chunks(a) /\ \A x : Listable(k, x) <=> Listable(a, x)
    BY <1>0, <1>1, Zenon DEF AllocType, NULL, Listable, DataLen
  <2>2. {x \in FreeChunks(k) : Listable(k, x)} \ {NULL} = {x \in FreeChunks(a) : Listable(a, x)} \ {c}
    BY <2>1, <1>2, Zenon DEF FreeChunks
  <2> QED BY <2>2, <1>0, <1>1, Zenon DEF Lists
<1> QED BY <1>0, <1>1, <1>3, <1>4, <1>4a, <1>5, <1>6, Zenon DEF Good, Row, MasterLast, k

\* A used chunk becomes a free one that is on no list.
LEMMA UnusedLemma ==
    ASSUME NEW a, NEW c \in a.used, Good(a, NULL)
    PROVE  LET k == Unused(a, c) IN
           Good(k, c) /\ c \in FreeChunks(k) /\ k.len = a.len /\ k.used = a.used \ {c}
<1> DEFINE k == Unused(a, c)
<1>0. Row(a) /\ Lists(a, NULL) /\ MasterLast(a) /\ AllocType(a) /\ Record(a) /\ c \in Chunks(a)
  BY Zenon DEF Good, Row, AllocType
<1>1. /\ Record(k) /\ k.len = a.len /\ k.prev = a.prev /\ k.last = a.last
      /\ k.master = a.master /\ k.recycler = a.recycler /\ k.used = a.used \ {c}
  BY <1>0, Zenon DEF Unused, Record, Fields
<1> HIDE DEF k
<1>2. Chunks(k) = Chunks(a) /\ FreeChunks(k) = FreeChunks(a) \union {c}
  BY <1>0, <1>1, Zenon DEF Chunks, FreeChunks
<1>3. AllocType(k)
  BY <1>0, <1>1, <1>2, Zenon DEF AllocType
<1>4. TiledBy(k)
  <2> TiledBy(a)
    BY <1>0, Zenon DEF Row
  <2> QED BY <1>1, <1>2 DEF TiledBy
<1>4a. Founded(k)
  BY <1>0, <1>2, Zenon DEF Founded, Row
<1>5. \A x \in FreeChunks(a) : ~RightFree(a, x)
  BY GoodLemma, Zenon
<1>6. Pieces(k, c)
  BY <1>5, <1>1, <1>2, Zenon DEF Pieces, RightFree, ChunkNext
<1>7. Lists(k, c)
  <2>1. NULL \notin Chunks(a) /\ \A x : Listable(k, x) <=> Listable(a, x)
    BY <1>0, <1>1, Zenon DEF AllocType, NULL, Listable, DataLen
  <2>2. {x \in FreeChunks(k) : Listable(k, x)} \ {c} = {x \in FreeChunks(a) : Listable(a, x)} \ {NULL}
    BY <2>1, <1>2, Zenon DEF FreeChunks
  <2> QED BY <2>2, <1>0, <1>1, Zenon DEF Lists
<1> QED BY <1>0, <1>1, <1>2, <1>3, <1>4, <1>4a, <1>6, <1>7, Zenon DEF Good, Row, MasterLast, k

-----------------------------------------------------------------------------
(* The calls of the allocator *)

\* A block is new to the allocator: it may be asked for memory.
NewTo(a, b) == b \in Bases /\ b + BLOCK_HEADER \notin Chunks(a)

\* The used chunks of a keep their lengths in k, and no block but b is added.
Keeps(a, k, b) ==
    /\ \A x \in a.used : k.len[x] = a.len[x]
    /\ \A y \in Bases : b + BLOCK_HEADER # y + BLOCK_HEADER /\ y + BLOCK_HEADER \in Chunks(k)
                          => y + BLOCK_HEADER \in Chunks(a)

\* A new block is one free chunk, on the master list.
LEMMA NewBlockLemma ==
    ASSUME NEW a, Good(a, NULL), a.master = NULL, NEW b, NewTo(a, b)
    PROVE  LET k == new_block(a, b) IN
           /\ Good(k, NULL) /\ k.master = b + BLOCK_HEADER /\ k.master \in FreeChunks(k)
           /\ DataLen(k, k.master) = MAX_ALLOC_SIZE
           /\ k.used = a.used /\ Keeps(a, k, b)
<1> DEFINE k == new_block(a, b)
           c == b + BLOCK_HEADER
           n == BLOCK_SIZE - BLOCK_HEADER
<1>0. /\ CHUNK_HEADER \in Nat \ {0} /\ BLOCK_HEADER \in Nat \ {0} /\ BLOCK_SIZE \in Nat
      /\ FREE_SIZE \in Nat \ {0} /\ BLOCK_SIZE >= BLOCK_HEADER + CHUNK_HEADER + FREE_SIZE
      /\ Bases \subseteq Nat /\ b \in Bases /\ b \in Nat /\ c \notin Chunks(a)
      /\ \A x, y \in Bases : x < y => x + BLOCK_SIZE <= y
  BY BlockAssumption, Zenon DEF NewTo
<1>0a. /\ c \in Nat \ {0} /\ n \in Nat /\ n >= CHUNK_HEADER + FREE_SIZE /\ c + n = b + BLOCK_SIZE
       /\ n - CHUNK_HEADER = BLOCK_SIZE - (BLOCK_HEADER + CHUNK_HEADER)
  BY <1>0
<1>1. /\ \A x \in FreeChunks(a) : ~RightFree(a, x)
      /\ NULL \notin Chunks(a) /\ NULL \notin Range(a.recycler)
      /\ Range(a.recycler) \union ({a.master} \ {NULL}) = {x \in FreeChunks(a) : Listable(a, x)}
      /\ Distinct(a.recycler) /\ a.recycler \in Seq(Nat) /\ Record(a) /\ Row(a)
  BY GoodLemma, Zenon
<1>2. AllocType(a) /\ TiledBy(a) /\ DOMAIN a.len = Chunks(a) /\ DOMAIN a.prev = Chunks(a)
  BY <1>1, Zenon DEF Row, AllocType, Chunks
<1>3. /\ Record(k) /\ k.len = With(a.len, c, n) /\ k.prev = With(a.prev, c, 0)
      /\ k.last = a.last \union {c} /\ k.used = a.used /\ k.master = c /\ k.recycler = a.recycler
  BY <1>1, Zenon DEF new_block, Record, Fields
<1>4. \A x \in Chunks(a) : x + a.len[x] <= b \/ b + BLOCK_SIZE <= x
  BY <1>0, <1>1, FreshLemma, Zenon
<1> HIDE DEF k, c, n
<1>5. /\ Chunks(k) = Chunks(a) \union {c} /\ k.len[c] = n /\ k.prev[c] = 0
      /\ \A x \in Chunks(a) : k.len[x] = a.len[x] /\ k.prev[x] = a.prev[x] /\ (x \in k.last <=> x \in a.last)
      /\ k.len \in [Chunks(k) -> Nat] /\ k.prev \in [Chunks(k) -> Nat]
  <2>1. a.len \in [Chunks(a) -> Nat] /\ a.prev \in [Chunks(a) -> Nat]
    BY <1>2, Zenon DEF AllocType
  <2> QED BY <2>1, <1>0, <1>0a, <1>2, <1>3 DEF With, Chunks
<1>6. AllocType(k)
  BY <1>0a, <1>1, <1>2, <1>3, <1>5, Zenon DEF AllocType
<1>7. TiledBy(k)
  <2>0. \A x \in Chunks(a) : x \in Nat /\ a.len[x] \in Nat /\ a.len[x] >= CHUNK_HEADER
    BY <1>2, Zenon DEF AllocType, TiledBy
  <2>1. /\ k.len[c] >= CHUNK_HEADER /\ b + BLOCK_HEADER <= c /\ c + k.len[c] <= b + BLOCK_SIZE
        /\ c \in k.last /\ c + k.len[c] = b + BLOCK_SIZE /\ k.prev[c] = 0 /\ c = b + BLOCK_HEADER
    BY <1>0, <1>0a, <1>3, <1>5 DEF c
  <2>2. \A d \in Chunks(k) : c < d => c + k.len[c] <= d
    <3> SUFFICES ASSUME NEW d \in Chunks(a), c < d PROVE b + BLOCK_SIZE <= d
      BY <2>1, <1>0a, <1>5
    <3> QED BY <2>0, <2>1, <1>0, <1>4
  <2>3. ASSUME NEW x \in Chunks(a)
        PROVE  /\ x < c => x + a.len[x] <= c
               /\ \A d \in Chunks(a) : x < d => x + a.len[x] <= d
    <3>1. \A d \in Chunks(a) : x < d => x + a.len[x] <= d
      BY <1>2, Zenon DEF TiledBy
    <3>2. x + a.len[x] <= b \/ b + BLOCK_SIZE <= x
      BY <1>4, Zenon
    <3> QED BY <3>1, <3>2, <2>0, <2>1, <1>0, <1>0a
  <2>4. ASSUME NEW x \in Chunks(a)
        PROVE  /\ k.len[x] >= CHUNK_HEADER
               /\ \A d \in Chunks(k) : x < d => x + k.len[x] <= d
               /\ \E y \in Bases :
                    /\ y + BLOCK_HEADER <= x /\ x + k.len[x] <= y + BLOCK_SIZE
                    /\ x \in k.last <=> x + k.len[x] = y + BLOCK_SIZE
                    /\ k.prev[x] = 0 <=> x = y + BLOCK_HEADER
               /\ x \notin k.last => x + k.len[x] \in Chunks(k) /\ k.prev[x + k.len[x]] = k.len[x]
               /\ k.prev[x] # 0 => x - k.prev[x] \in Chunks(k) /\ k.len[x - k.prev[x]] = k.prev[x]
    BY <2>3, <1>2, <1>5 DEF TiledBy
  <2> QED BY <2>1, <2>2, <2>4, <1>0, <1>5 DEF TiledBy
<1>7a. Founded(k)
  <2>1. \A y \in Bases : y + BLOCK_HEADER <= c /\ c < y + BLOCK_SIZE => y = b
    <3> SUFFICES ASSUME NEW y \in Bases, y + BLOCK_HEADER <= b + BLOCK_HEADER,
                        b + BLOCK_HEADER < y + BLOCK_SIZE
                 PROVE  y = b
      BY Zenon DEF c
    <3>1. y \in Nat /\ (b < y => b + BLOCK_SIZE <= y) /\ (y < b => y + BLOCK_SIZE <= b)
      BY <1>0, Zenon
    <3> QED BY <3>1, <1>0
  <2>2. b + BLOCK_HEADER \in Chunks(k)
    BY <1>5, Zenon DEF c
  <2>3. Founded(a)
    BY <1>1, Zenon DEF Row
  <2> QED BY <2>1, <2>2, <2>3, <1>5, Zenon DEF Founded
<1>8. FreeChunks(k) = FreeChunks(a) \union {c} /\ Listable(k, c) /\ DataLen(k, c) = MAX_ALLOC_SIZE
  <2>1. c \notin a.used
    BY <1>2, <1>0, Zenon DEF AllocType, c
  <2> QED BY <2>1, <1>0, <1>0a, <1>3, <1>5 DEF FreeChunks, Listable, DataLen, MAX_ALLOC_SIZE
<1>9. Pieces(k, NULL)
  <2> SUFFICES ASSUME NEW x \in FreeChunks(k), RightFree(k, x) PROVE FALSE
    BY Zenon DEF Pieces
  <2>1. x # c /\ x \in FreeChunks(a) /\ x \in Chunks(a)
    BY <1>3, <1>8, Zenon DEF RightFree, FreeChunks
  <2> QED BY <2>1, <1>1, <1>3, <1>5, Zenon DEF RightFree, ChunkNext
<1>10. Lists(k, NULL)
  <2>1. \A x \in FreeChunks(a) : Listable(k, x) <=> Listable(a, x)
    BY <1>5, Zenon DEF Listable, DataLen, FreeChunks
  <2>2. {x \in FreeChunks(k) : Listable(k, x)} \ {NULL} = {x \in FreeChunks(a) : Listable(a, x)} \union {c}
    BY <2>1, <1>0a, <1>1, <1>8, Zenon DEF FreeChunks, NULL
  <2>3. c \notin Range(a.recycler)
    BY <1>0, <1>1, Zenon DEF FreeChunks, c
  <2> QED BY <2>2, <2>3, <1>0a, <1>1, <1>3, Zenon DEF Lists, NULL
<1>11. Keeps(a, k, b)
  BY <1>2, <1>5, Zenon DEF Keeps, AllocType, c
<1> QED BY <1>3, <1>6, <1>7, <1>7a, <1>8, <1>9, <1>10, <1>11, Zenon DEF Good, Row, MasterLast, k, c

\* A master chunk that is too small changes list.
LEMMA RefillLemma ==
    ASSUME NEW a, Good(a, NULL), NEW size
    PROVE  LET r == Refilled(a, size) IN
           /\ Good(r, NULL) /\ r.len = a.len /\ r.used = a.used
           /\ r.master # NULL => ~(DataLen(r, r.master) < size)
<1>1. CASE ~(a.master # NULL /\ DataLen(a, a.master) < size)
  BY <1>1, Zenon DEF Refilled
<1>2. CASE a.master # NULL /\ DataLen(a, a.master) < size
  <2> DEFINE p == pop_master(a)
             r == Refilled(a, size)
  <2>1. /\ Range(a.recycler) \union ({a.master} \ {NULL}) = {x \in FreeChunks(a) : Listable(a, x)}
        /\ NULL \notin Chunks(a) /\ NULL \notin Range(a.recycler)
        /\ \A x \in FreeChunks(a) : ~RightFree(a, x)
        /\ Distinct(a.recycler) /\ a.master \notin Range(a.recycler)
        /\ a.recycler \in Seq(Nat) /\ a.master \in Nat /\ Record(a) /\ Row(a)
    BY GoodLemma, Zenon
  <2>2. Record(p) /\ SameHeap(a, p) /\ p.recycler = a.recycler /\ p.master = NULL
    BY <2>1, Zenon DEF pop_master, Record, Fields, SameHeap
  <2>3. r = add_to_recycler(p, a.master)
    BY <1>2, Zenon DEF Refilled
  <2> HIDE DEF p, r
  <2>4. Listable(a, a.master) /\ Listable(p, a.master)
    BY <1>2, <2>1, <2>2, Zenon DEF SameHeap, Listable, DataLen
  <2>5. /\ Record(r) /\ SameHeap(p, r) /\ r.master = p.master /\ r.recycler \in Seq(Nat)
        /\ Distinct(r.recycler)
        /\ Range(r.recycler) = Range(p.recycler) \union {x \in {a.master} : Listable(p, x)}
    BY <2>1, <2>2, <2>3, AddFields, Zenon
  <2>6. SameHeap(a, r) /\ r.master = NULL /\ NULL \in Nat
    BY <2>2, <2>5, Zenon DEF SameHeap, NULL
  <2>7. /\ Row(r) /\ Chunks(r) = Chunks(a) /\ FreeChunks(r) = FreeChunks(a)
        /\ \A x : Listable(r, x) <=> Listable(a, x)
        /\ \A x : RightFree(r, x) <=> RightFree(a, x)
    BY <2>1, <2>5, <2>6, SameHeapLemma, Zenon
  <2>8. Range(r.recycler) = {x \in FreeChunks(a) : Listable(a, x)}
    BY <1>2, <2>1, <2>2, <2>4, <2>5, Zenon
  <2>9. Pieces(r, NULL) /\ Lists(r, NULL) /\ MasterLast(r)
    BY <2>1, <2>5, <2>6, <2>7, <2>8, ZenonT(30) DEF Pieces, Lists, MasterLast, FreeChunks
  <2> QED BY <2>6, <2>7, <2>9, Zenon DEF Good, SameHeap, r
<1> QED BY <1>1, <1>2, Zenon

\* The chunk chosen for a request is free and large enough.
LEMMA SupplyLemma ==
    ASSUME NEW a, Good(a, NULL), NEW size \in Nat, size <= MAX_ALLOC_SIZE, NEW b,
           ServedByRecycler(a, size) \/ Refilled(a, size).master # NULL \/ NewTo(a, b)
    PROVE  LET k == Supplied(a, size, b)
               c == Chosen(a, size, b)
           IN /\ Good(k, NULL) /\ c \in FreeChunks(k) /\ DataLen(k, c) >= size
              /\ k.used = a.used /\ Keeps(a, k, b)
<1> DEFINE k == Supplied(a, size, b)
           c == Chosen(a, size, b)
           r == Refilled(a, size)
<1>0. CHUNK_HEADER \in Nat /\ MAX_ALLOC_SIZE \in Int
  BY BlockAssumption DEF MAX_ALLOC_SIZE
<1>1. CASE ServedByRecycler(a, size)
  <2>1. k = a /\ c = a.recycler[1]
    BY <1>1, Zenon DEF Supplied, Chosen
  <2>2. /\ Range(a.recycler) \union ({a.master} \ {NULL}) = {x \in FreeChunks(a) : Listable(a, x)}
        /\ a.recycler \in Seq(Nat)
    BY GoodLemma, Zenon
  <2>3. a.recycler[1] \in Range(a.recycler)
    BY <1>1, <2>2 DEF ServedByRecycler, Range
  <2> QED BY <1>1, <2>1, <2>2, <2>3, Zenon DEF ServedByRecycler, Keeps
<1>2. CASE ~ServedByRecycler(a, size) /\ r.master # NULL
  <2>1. k = r /\ c = r.master
    BY <1>2, Zenon DEF Supplied, Chosen
  <2> HIDE DEF r
  <2>2. Good(r, NULL) /\ r.len = a.len /\ r.used = a.used /\ ~(DataLen(r, r.master) < size)
    BY <1>2, RefillLemma, Zenon DEF r
  <2>3. Range(r.recycler) \union ({r.master} \ {NULL}) = {x \in FreeChunks(r) : Listable(r, x)} /\ Row(r)
    BY <2>2, GoodLemma, Zenon
  <2>4. r.master \in FreeChunks(r) /\ r.len[r.master] \in Nat
    BY <1>2, <2>3, Zenon DEF FreeChunks, Row, AllocType
  <2>5. DataLen(r, r.master) >= size
    BY <2>2, <2>4, <1>0 DEF DataLen
  <2> QED BY <2>1, <2>2, <2>4, <2>5, Zenon DEF Keeps, Chunks
<1>3. CASE ~ServedByRecycler(a, size) /\ r.master = NULL
  <2>1. k = new_block(r, b) /\ c = k.master /\ NewTo(a, b)
    BY <1>3, Zenon DEF Supplied, Chosen
  <2> HIDE DEF r
  <2>2. Good(r, NULL) /\ r.len = a.len /\ r.used = a.used
    BY RefillLemma, Zenon DEF r
  <2>3. NewTo(r, b)
    BY <2>1, <2>2, Zenon DEF NewTo, Chunks
  <2>4. /\ Good(k, NULL) /\ c \in FreeChunks(k) /\ DataLen(k, c) = MAX_ALLOC_SIZE
        /\ k.used = r.used /\ Keeps(r, k, b)
    <3> HIDE DEF k, c
    <3> QED BY <1>3, <2>1, <2>2, <2>3, NewBlockLemma, Zenon
  <2> HIDE DEF k, c
  <2>5. DataLen(k, c) >= size
    BY <2>4, <1>0, Zenon
  <2> QED BY <2>2, <2>4, <2>5, Zenon DEF Keeps, Chunks, k, c
<1> QED BY <1>1, <1>2, <1>3, Zenon

\* An allocation makes one chunk used, large enough, that was not used before.
LEMMA AllocLemma ==
    ASSUME NEW a, Good(a, NULL), NEW size \in Nat, size <= MAX_ALLOC_SIZE, NEW b,
           ServedByRecycler(a, size) \/ Refilled(a, size).master # NULL \/ NewTo(a, b)
    PROVE  LET k == block_alloc(a, size, b)
               c == Chosen(a, size, b)
           IN /\ Good(k, NULL) /\ c \notin a.used /\ k.used = a.used \union {c}
              /\ DataLen(k, c) >= size /\ Keeps(a, k, b) /\ c \in Nat
<1> DEFINE c == Chosen(a, size, b)
           s == Supplied(a, size, b)
           t == split_free_chunk(s, c, size)
           y == cycle_recycler(t)
           k == Used(y, c)
<1>1. /\ Good(s, NULL) /\ c \in FreeChunks(s) /\ DataLen(s, c) >= size
      /\ s.used = a.used /\ Keeps(a, s, b)
  BY SupplyLemma, Zenon
<1>2. k = block_alloc(a, size, b)
  BY Zenon DEF block_alloc
<1> HIDE DEF c, s
<1>3. Good(t, c) /\ c \in FreeChunks(t) /\ Spares(s, t, NULL) /\ DataLen(t, c) >= size
  BY <1>1, SplitFreeLemma, Zenon
<1> HIDE DEF t
<1>4. Good(y, c) /\ y.len = t.len /\ y.used = t.used
  BY <1>3, CycleLemma, Zenon
<1> HIDE DEF y
<1>5. c \in FreeChunks(y)
  BY <1>3, <1>4, Zenon DEF FreeChunks, Chunks
<1>6. Good(k, NULL) /\ k.len = y.len /\ k.used = y.used \union {c}
  BY <1>4, <1>5, UsedLemma, Zenon
<1> HIDE DEF k
<1>7. s.used \subseteq Chunks(s) /\ NULL \notin s.used
  BY <1>1, GoodLemma, Zenon DEF Good, Row, AllocType
<1>8. Keeps(a, k, b) /\ k.used = a.used \union {c} /\ c \notin a.used
  BY <1>1, <1>3, <1>4, <1>6, <1>7, Zenon DEF Keeps, Spares, Chunks, FreeChunks
<1>9. DataLen(k, c) >= size /\ c \in Nat
  BY <1>1, <1>3, <1>4, <1>6, Zenon DEF DataLen, FreeChunks, Good, Row, AllocType
<1> QED BY <1>2, <1>6, <1>8, <1>9, Zenon DEF c

\* Freeing a used chunk leaves the other ones as they are.
LEMMA FreeLemma ==
    ASSUME NEW a, Good(a, NULL), NEW c \in a.used
    PROVE  LET k == block_free(a, c) IN
           Good(k, NULL) /\ k.used = a.used \ {c} /\ (\A x \in k.used : k.len[x] = a.len[x])
           /\ \A b \in Bases : b + BLOCK_HEADER \in Chunks(k) => b + BLOCK_HEADER \in Chunks(a)
<1> DEFINE u == Unused(a, c)
           m == merge_free(u, c)
           k == cycle_recycler(m)
<1>1. Good(u, c) /\ c \in FreeChunks(u) /\ u.len = a.len /\ u.used = a.used \ {c}
  BY UnusedLemma, Zenon
<1>2. k = block_free(a, c)
  BY Zenon DEF block_free
<1> HIDE DEF u
<1>3. Good(m, NULL) /\ Spares(u, m, NULL)
  BY <1>1, MergeLemma, Zenon
<1> HIDE DEF m
<1>4. Good(k, NULL) /\ k.len = m.len /\ k.used = m.used
  BY <1>3, CycleLemma, Zenon
<1> HIDE DEF k
<1>5. NULL \notin a.used
  BY GoodLemma, Zenon DEF Good, Row, AllocType
<1> QED BY <1>1, <1>2, <1>3, <1>4, <1>5, Zenon DEF Spares, Chunks

\* Shrinking a used chunk leaves it as large as asked and the others as they are.
LEMMA ShrinkLemma ==
    ASSUME NEW a, Good(a, NULL), NEW c \in a.used, NEW size \in Nat, size < DataLen(a, c)
    PROVE  LET k == shrink(a, c, size) IN
           Good(k, NULL) /\ Spares(a, k, c) /\ DataLen(k, c) >= size
<1> DEFINE n == ALIGN_SIZE(size) + CHUNK_HEADER
           e == c + n
           u == Carve(a, c, n)
           m == split_used_chunk(a, c, size)
           k == cycle_recycler(m)
<1>0. CHUNK_HEADER \in Nat \ {0} /\ ALIGN_SIZE(size) \in Nat /\ ALIGN_SIZE(size) >= size /\ n \in Nat
  BY BlockAssumption, AlignLemma
<1>1. /\ \A x \in FreeChunks(a) : ~RightFree(a, x)
      /\ NULL \notin Chunks(a) /\ Row(a) /\ AllocType(a) /\ MasterLast(a) /\ Lists(a, NULL)
      /\ Range(a.recycler) \union ({a.master} \ {NULL}) = {x \in FreeChunks(a) : Listable(a, x)}
  BY GoodLemma, Zenon DEF Good, Row
<1>2. c \in Chunks(a) /\ c \in Nat /\ a.len[c] \in Nat /\ c # NULL
  BY <1>1, Zenon DEF AllocType
<1>3. CASE n > DataLen(a, c)
  <2>1. m = a
    BY <1>3, Zenon DEF split_used_chunk
  <2>2. Good(k, NULL) /\ k.len = a.len /\ k.used = a.used
    BY <2>1, CycleLemma, Zenon
  <2>3. DataLen(k, c) >= size
    BY <2>2, <1>0, <1>2 DEF DataLen
  <2> HIDE DEF k
  <2> QED BY <2>2, <2>3, Zenon DEF Spares, Chunks, shrink, k
<1>4. CASE ~(n > DataLen(a, c))
  <2>1. m = merge_free(u, e)
    BY <1>4, Zenon DEF split_used_chunk
  <2> HIDE DEF m
  <2>2. n >= CHUNK_HEADER /\ n + CHUNK_HEADER <= a.len[c] /\ 0 < n /\ n < a.len[c]
    BY <1>0, <1>2, <1>4 DEF DataLen
  <2>3. /\ Row(u) /\ SameLists(a, u) /\ e \notin Chunks(a) /\ Chunks(u) = Chunks(a) \union {e}
        /\ u.last = Passed(a.last, c, e) /\ u.len[c] = n
        /\ \A x \in Chunks(a) : x # c => u.len[x] = a.len[x]
    <3> HIDE DEF n
    <3>1. Row(a) /\ c \in Chunks(a) /\ n \in Nat
      BY <1>0, <1>1, <1>2, Zenon
    <3> QED BY <2>2, <3>1, CarveRow, SMTT(30)
  <2>4. \A b \in Bases : e # b + BLOCK_HEADER
    <3> HIDE DEF n
    <3> QED BY <2>2, <1>0, <1>1, <1>2, InnerLemma, Zenon
  <2> HIDE DEF u, e
  <2>5. /\ u.used = a.used /\ u.master = a.master /\ u.recycler = a.recycler
        /\ FreeChunks(u) = FreeChunks(a) \union {e} /\ e \notin FreeChunks(a) /\ e \in FreeChunks(u)
    BY <2>3, <1>1, ZenonT(30) DEF SameLists, FreeChunks, AllocType
  <2>6. \A x \in FreeChunks(a) : /\ x \in Chunks(a) /\ x # c /\ x # e /\ u.len[x] = a.len[x]
                                 /\ x \in u.last <=> x \in a.last
    BY <2>3, Zenon DEF FreeChunks, Passed
  <2>7. Pieces(u, e)
    <3> SUFFICES ASSUME NEW x \in FreeChunks(a), RightFree(u, x) PROVE FALSE
      BY <2>5, Zenon DEF Pieces
    <3> QED BY <2>5, <2>6, <1>1, Zenon DEF RightFree, ChunkNext
  <2>8. Lists(u, e)
    <3>1. {x \in FreeChunks(u) : Listable(u, x)} \ {e} = {x \in FreeChunks(a) : Listable(a, x)} \ {NULL}
      BY <2>5, <2>6, <1>1 DEF Listable, DataLen, FreeChunks
    <3> QED BY <3>1, <2>5, <1>1, Zenon DEF Lists
  <2>9. MasterLast(u)
    <3>1. a.master # NULL => a.master \in FreeChunks(a)
      BY <1>1, Zenon
    <3> QED BY <3>1, <2>5, <2>6, <1>1, Zenon DEF MasterLast
  <2>10. Good(u, e)
    BY <2>3, <2>7, <2>8, <2>9, Zenon DEF Good
  <2>11. Good(m, NULL) /\ Spares(u, m, NULL)
    BY <2>1, <2>5, <2>10, MergeLemma, Zenon
  <2>12. Good(k, NULL) /\ k.len = m.len /\ k.used = m.used
    BY <2>11, CycleLemma, Zenon
  <2> HIDE DEF k
  <2>13. k.len[c] = n
    BY <2>3, <2>5, <2>11, <2>12, <1>2, Zenon DEF Spares
  <2>14. DataLen(k, c) >= size
    BY <2>13, <1>0 DEF DataLen
  <2>15. Spares(a, k, c)
    BY <2>3, <2>4, <2>5, <2>11, <2>12, <1>1, Zenon DEF Spares, AllocType, Chunks
  <2> QED BY <2>12, <2>14, <2>15, Zenon DEF shrink, k, m
<1> QED BY <1>3, <1>4, Zenon

\* Growing a used chunk leaves it as large as asked and the others as they are.
LEMMA GrowLemma ==
    ASSUME NEW a, Good(a, NULL), NEW c \in a.used, NEW size \in Nat,
           size > DataLen(a, c), CanGrow(a, c, size)
    PROVE  LET k == grow(a, c, size) IN
           Good(k, NULL) /\ Spares(a, k, c) /\ DataLen(k, c) >= size
<1> DEFINE d == ChunkNext(a, c)
           z == SplitSize(a, c, size)
           s == split_free_chunk(a, d, z)
           j == Joined(s, c, d)
           k == cycle_recycler(j)
<1>0. CHUNK_HEADER \in Nat \ {0}
  BY BlockAssumption, Zenon
<1>1. Row(a) /\ AllocType(a) /\ NULL \notin Chunks(a)
  BY GoodLemma, Zenon DEF Row
<1>2. c \in Chunks(a) /\ c \in Nat /\ a.len[c] \in Nat /\ c # NULL /\ c \notin a.last /\ d \notin a.used
  BY <1>1, Zenon DEF AllocType, CanGrow, RightFree
<1>3. d \in FreeChunks(a) /\ d # c /\ d \in Chunks(a) /\ a.len[d] \in Nat
  BY <1>1, <1>2, NeighbourLemma, Zenon DEF FreeChunks, AllocType
<1>4. z \in Nat /\ z + CHUNK_HEADER >= size - DataLen(a, c)
  BY <1>0, <1>2 DEF SplitSize, DataLen
<1>5. size < DataLen(a, c) + a.len[d]
  BY Zenon DEF CanGrow
<1>6. k = grow(a, c, size)
  BY Zenon DEF grow, Joined
<1>7. d = c + a.len[c]
  BY Zenon DEF ChunkNext
<1> HIDE DEF z, d
<1>8. /\ Good(s, d) /\ d \in FreeChunks(s) /\ Spares(a, s, NULL) /\ Chunks(a) \subseteq Chunks(s)
      /\ \A x \in Chunks(a) : x # d => s.len[x] = a.len[x] /\ (x \in s.last <=> x \in a.last)
      /\ s.len[d] = a.len[d] \/ DataLen(s, d) >= z
  BY <1>3, <1>4, SplitFreeLemma, Zenon
<1> HIDE DEF s
<1>9. /\ Row(s) /\ Lists(s, d) /\ MasterLast(s) /\ Pieces(s, d) /\ AllocType(s) /\ d \in Chunks(s)
      /\ c \in Chunks(s) /\ c \notin s.last /\ s.len[c] = a.len[c] /\ d = ChunkNext(s, c) /\ d \notin s.used
      /\ s.used = a.used
  BY <1>2, <1>3, <1>7, <1>8, Zenon DEF Good, Row, FreeChunks, ChunkNext, Spares
<1>10. /\ Row(j) /\ SameLists(s, j) /\ Chunks(j) = Chunks(s) \ {d} /\ j.last = Passed(s.last, d, c)
       /\ j.len[c] = s.len[c] + s.len[d]
       /\ \A x \in Chunks(j) : x # c => j.len[x] = s.len[x]
  <2>1. Row(s) /\ c \in Chunks(s) /\ c \notin s.last /\ d = ChunkNext(s, c) /\ d \notin s.used
    BY <1>9, Zenon
  <2>2. j = Joined(s, c, d)
    OBVIOUS
  <2> HIDE DEF j
  <2> QED BY ONLY <2>1, <2>2, JoinedFacts
<1> HIDE DEF j
<1>11. /\ j.used = a.used /\ j.master = s.master /\ j.recycler = s.recycler
       /\ FreeChunks(j) = FreeChunks(s) \ {d}
  BY <1>9, <1>10, Zenon DEF SameLists, FreeChunks
<1>12. \A x \in FreeChunks(j) : /\ x \in Chunks(s) /\ x # c /\ x # d /\ j.len[x] = s.len[x]
                                /\ x \in j.last <=> x \in s.last
  BY <1>10, <1>11, Zenon DEF FreeChunks, Passed
<1>13. Pieces(j, NULL)
  <2> SUFFICES ASSUME NEW x \in FreeChunks(j), RightFree(j, x) PROVE FALSE
    BY Zenon DEF Pieces
  <2>1. RightFree(s, x) /\ x \in FreeChunks(s) /\ x # d
    BY <1>9, <1>11, <1>12, Zenon DEF RightFree, ChunkNext
  <2>2. ChunkNext(s, x) = d /\ x \in Chunks(s) \ s.last
    BY <2>1, <1>9, Zenon DEF Pieces, RightFree, FreeChunks
  <2>3. x = ChunkPrev(s, d) /\ c = ChunkPrev(s, d)
    <3>1. Row(s) /\ d \in Chunks(s) /\ c \in Chunks(s) \ s.last /\ ChunkNext(s, c) = d
      BY <1>9, Zenon
    <3> QED BY <2>2, <3>1, NeighbourLemma, SMTT(30)
  <2> QED BY <2>3, <1>12, Zenon
<1>14. Lists(j, NULL)
  <2>1. NULL \notin Chunks(s)
    BY <1>9, Zenon DEF AllocType, NULL
  <2>2. {x \in FreeChunks(j) : Listable(j, x)} \ {NULL} = {x \in FreeChunks(s) : Listable(s, x)} \ {d}
    BY <2>1, <1>11, <1>12, Zenon DEF Listable, DataLen
  <2> QED BY <2>2, <1>9, <1>11, Zenon DEF Lists
<1>15. MasterLast(j)
  <2>1. s.master # NULL => s.master # d
    BY <1>9, Zenon DEF Lists
  <2> QED BY <2>1, <1>9, <1>10, <1>11, Zenon DEF MasterLast, Passed
<1>16. Good(j, NULL)
  BY <1>10, <1>13, <1>14, <1>15, Zenon DEF Good
<1>17. Good(k, NULL) /\ k.len = j.len /\ k.used = j.used
  BY <1>16, CycleLemma, Zenon
<1> HIDE DEF k
<1>18. DataLen(k, c) >= size
  <2>1. k.len[c] = a.len[c] + s.len[d] /\ s.len[d] \in Nat
    BY <1>9, <1>10, <1>17, Zenon DEF AllocType
  <2>2. CASE s.len[d] = a.len[d]
    BY <2>1, <2>2, <1>0, <1>2, <1>3, <1>5 DEF DataLen
  <2>3. CASE DataLen(s, d) >= z
    BY <2>1, <2>3, <1>0, <1>2, <1>4 DEF DataLen
  <2> QED BY <2>2, <2>3, <1>8, Zenon
<1>19. Spares(a, k, c)
  <2>1. \A x \in a.used : x # c => x # d /\ x \in Chunks(a) /\ k.len[x] = a.len[x]
    BY <1>1, <1>2, <1>8, <1>10, <1>17, Zenon DEF AllocType
  <2> QED BY <2>1, <1>8, <1>10, <1>11, <1>17, Zenon DEF Spares, Chunks
<1> QED BY <1>6, <1>17, <1>18, <1>19, Zenon DEF k

-----------------------------------------------------------------------------
(* What the program holds *)

\* LiveExact for an allocator a, jumbo blocks j and allocations l.
Holds(a, j, l) ==
    /\ Chunks(a) \subseteq Nat /\ DOMAIN j \subseteq Bases
    /\ DOMAIN l = {DataOf(c) : c \in a.used} \union {JumboOf(b) : b \in DOMAIN j}
    /\ \A c \in a.used : c \in Chunks(a) /\ l[DataOf(c)] <= DataLen(a, c)
    /\ \A b \in DOMAIN j : l[JumboOf(b)] = j[b] /\ b + BLOCK_HEADER \notin Chunks(a)

\* The used chunks of allocator k are chunks, and none of its blocks is a jumbo block.
Sound(j, k) ==
    /\ Chunks(k) \subseteq Nat /\ k.used \subseteq Chunks(k)
    /\ \A b \in DOMAIN j : b + BLOCK_HEADER \notin Chunks(k)

\* Pointers are unique.
LEMMA PointerLemma ==
    /\ \A x, y \in Nat : DataOf(x) = DataOf(y) => x = y
    /\ \A x \in Nat : ChunkOf(DataOf(x)) = x
    /\ \A b : JumboOf(b) = DataOf(b + BLOCK_HEADER)
    /\ \A b \in Bases : b + BLOCK_HEADER \in Nat /\ b # NULL
    /\ \A b, y \in Bases : b + BLOCK_HEADER = y + BLOCK_HEADER => b = y
BY BlockAssumption DEF DataOf, ChunkOf, JumboOf, NULL

\* A chunk more is used.
LEMMA HoldsAdd ==
    ASSUME NEW a, NEW j, NEW l, Holds(a, j, l), NEW k, Sound(j, k), NEW c, c \notin a.used,
           k.used = a.used \union {c}, \A x \in a.used : k.len[x] = a.len[x],
           NEW size, size <= DataLen(k, c)
    PROVE  Holds(k, j, With(l, DataOf(c), size))
<1> DEFINE m == With(l, DataOf(c), size)
<1>1. /\ DOMAIN m = DOMAIN l \union {DataOf(c)} /\ m[DataOf(c)] = size
      /\ \A p \in DOMAIN l : p # DataOf(c) => m[p] = l[p]
  BY Zenon DEF With
<1> HIDE DEF m
<1>2. /\ \A x \in a.used : x \in Nat /\ x # c /\ DataOf(x) \in DOMAIN l
      /\ c \in Nat /\ \A b \in DOMAIN j : b \in Bases /\ b + BLOCK_HEADER # c /\ JumboOf(b) \in DOMAIN l
  BY Zenon DEF Holds, Sound
<1>3. \A x \in a.used : DataOf(x) # DataOf(c)
  BY <1>2, PointerLemma, Zenon
<1>4. \A b \in DOMAIN j : JumboOf(b) # DataOf(c)
  BY <1>2, PointerLemma, Zenon
<1>5. DOMAIN m = {DataOf(x) : x \in k.used} \union {JumboOf(b) : b \in DOMAIN j}
  BY <1>1 DEF Holds
<1>6. \A x \in k.used : x \in Chunks(k) /\ m[DataOf(x)] <= DataLen(k, x)
  BY <1>1, <1>2, <1>3, Zenon DEF Holds, Sound, DataLen
<1>7. \A b \in DOMAIN j : m[JumboOf(b)] = j[b] /\ b + BLOCK_HEADER \notin Chunks(k)
  BY <1>1, <1>2, <1>4, Zenon DEF Holds, Sound
<1> QED BY <1>5, <1>6, <1>7, Zenon DEF Holds, Sound, m

\* A chunk less is used.
LEMMA HoldsDrop ==
    ASSUME NEW a, NEW j, NEW l, Holds(a, j, l), NEW k, Sound(j, k), NEW c \in a.used,
           k.used = a.used \ {c}, \A x \in k.used : k.len[x] = a.len[x]
    PROVE  Holds(k, j, Without(l, DataOf(c)))
<1> DEFINE m == Without(l, DataOf(c))
<1>1. DOMAIN m = DOMAIN l \ {DataOf(c)} /\ \A p \in DOMAIN l : p # DataOf(c) => m[p] = l[p]
  BY Zenon DEF Without
<1> HIDE DEF m
<1>2. /\ \A x \in a.used : x \in Nat /\ DataOf(x) \in DOMAIN l
      /\ \A b \in DOMAIN j : b \in Bases /\ b + BLOCK_HEADER # c /\ JumboOf(b) \in DOMAIN l
  BY Zenon DEF Holds
<1>3. \A x \in k.used : DataOf(x) # DataOf(c)
  BY <1>2, PointerLemma, Zenon
<1>4. \A b \in DOMAIN j : JumboOf(b) # DataOf(c)
  BY <1>2, PointerLemma, Zenon
<1>5. DOMAIN m = {DataOf(x) : x \in k.used} \union {JumboOf(b) : b \in DOMAIN j}
  BY <1>1, <1>3, <1>4 DEF Holds
<1>6. \A x \in k.used : x \in Chunks(k) /\ m[DataOf(x)] <= DataLen(k, x)
  BY <1>1, <1>2, <1>3, Zenon DEF Holds, Sound, DataLen
<1>7. \A b \in DOMAIN j : m[JumboOf(b)] = j[b] /\ b + BLOCK_HEADER \notin Chunks(k)
  BY <1>1, <1>2, <1>4, Zenon DEF Holds, Sound
<1> QED BY <1>5, <1>6, <1>7, Zenon DEF Holds, Sound, m

\* A used chunk has another length.
LEMMA HoldsResize ==
    ASSUME NEW a, NEW j, NEW l, Holds(a, j, l), NEW k, Sound(j, k), NEW c \in a.used,
           k.used = a.used, \A x \in a.used : x # c => k.len[x] = a.len[x],
           NEW size, size <= DataLen(k, c)
    PROVE  Holds(k, j, [l EXCEPT ![DataOf(c)] = size])
<1> DEFINE m == [l EXCEPT ![DataOf(c)] = size]
<1>2. /\ \A x \in a.used : x \in Nat /\ DataOf(x) \in DOMAIN l
      /\ \A b \in DOMAIN j : b \in Bases /\ b + BLOCK_HEADER # c /\ JumboOf(b) \in DOMAIN l
  BY Zenon DEF Holds
<1>1. /\ DOMAIN m = DOMAIN l /\ m[DataOf(c)] = size
      /\ \A p \in DOMAIN l : p # DataOf(c) => m[p] = l[p]
  BY <1>2, Zenon
<1> HIDE DEF m
<1>3. \A x \in a.used : x # c => DataOf(x) # DataOf(c)
  BY <1>2, PointerLemma, Zenon
<1>4. \A b \in DOMAIN j : JumboOf(b) # DataOf(c)
  BY <1>2, PointerLemma, Zenon
<1>6. \A x \in k.used : x \in Chunks(k) /\ m[DataOf(x)] <= DataLen(k, x)
  BY <1>1, <1>2, <1>3 DEF Holds, Sound, DataLen
<1>7. \A b \in DOMAIN j : m[JumboOf(b)] = j[b] /\ b + BLOCK_HEADER \notin Chunks(k)
  BY <1>1, <1>2, <1>4, Zenon DEF Holds, Sound
<1> QED BY <1>1, <1>6, <1>7, Zenon DEF Holds, Sound, m

\* A jumbo block more is held.
LEMMA HoldsAddJumbo ==
    ASSUME NEW a, NEW j, NEW l, Holds(a, j, l), NEW b, NewTo(a, b), b \notin DOMAIN j, NEW size
    PROVE  Holds(a, With(j, b, size), With(l, JumboOf(b), size))
<1> DEFINE m == With(l, JumboOf(b), size)
           i == With(j, b, size)
<1>1. /\ DOMAIN m = DOMAIN l \union {JumboOf(b)} /\ m[JumboOf(b)] = size
      /\ \A p \in DOMAIN l : p # JumboOf(b) => m[p] = l[p]
      /\ DOMAIN i = DOMAIN j \union {b} /\ i[b] = size /\ \A x \in DOMAIN j : i[x] = j[x]
  BY Zenon DEF With
<1> HIDE DEF m, i
<1>2. /\ \A x \in a.used : x \in Nat /\ x # b + BLOCK_HEADER /\ DataOf(x) \in DOMAIN l
      /\ b \in Bases /\ \A x \in DOMAIN j : x \in Bases /\ x # b /\ JumboOf(x) \in DOMAIN l
  BY Zenon DEF Holds, NewTo
<1>3. \A x \in a.used : DataOf(x) # JumboOf(b)
  BY <1>2, PointerLemma, Zenon
<1>4. \A x \in DOMAIN j : JumboOf(x) # JumboOf(b)
  BY <1>2, PointerLemma, Zenon
<1>5. DOMAIN m = {DataOf(x) : x \in a.used} \union {JumboOf(x) : x \in DOMAIN i}
  BY <1>1, Zenon DEF Holds
<1>6. \A x \in a.used : x \in Chunks(a) /\ m[DataOf(x)] <= DataLen(a, x)
  BY <1>1, <1>2, <1>3, Zenon DEF Holds
<1>7. \A x \in DOMAIN i : m[JumboOf(x)] = i[x] /\ x + BLOCK_HEADER \notin Chunks(a)
  BY <1>1, <1>2, <1>4, Zenon DEF Holds, NewTo
<1> QED BY <1>1, <1>2, <1>5, <1>6, <1>7, Zenon DEF Holds, m, i

\* A jumbo block less is held.
LEMMA HoldsDropJumbo ==
    ASSUME NEW a, NEW j, NEW l, Holds(a, j, l), NEW b \in DOMAIN j
    PROVE  Holds(a, Without(j, b), Without(l, JumboOf(b)))
<1> DEFINE m == Without(l, JumboOf(b))
           i == Without(j, b)
<1>1. /\ DOMAIN m = DOMAIN l \ {JumboOf(b)} /\ \A p \in DOMAIN l : p # JumboOf(b) => m[p] = l[p]
      /\ DOMAIN i = DOMAIN j \ {b} /\ \A x \in DOMAIN i : i[x] = j[x]
  BY Zenon DEF Without
<1> HIDE DEF m, i
<1>2. /\ \A x \in a.used : x \in Nat /\ x # b + BLOCK_HEADER /\ DataOf(x) \in DOMAIN l
      /\ b \in Bases /\ \A x \in DOMAIN j : x \in Bases /\ JumboOf(x) \in DOMAIN l
  BY Zenon DEF Holds
<1>3. \A x \in a.used : DataOf(x) # JumboOf(b)
  BY <1>2, PointerLemma, Zenon
<1>4. \A x \in DOMAIN i : JumboOf(x) # JumboOf(b)
  BY <1>1, <1>2, PointerLemma, Zenon
<1>5. DOMAIN m = {DataOf(x) : x \in a.used} \union {JumboOf(x) : x \in DOMAIN i}
  BY <1>1, <1>3, <1>4 DEF Holds
<1>6. \A x \in a.used : x \in Chunks(a) /\ m[DataOf(x)] <= DataLen(a, x)
  BY <1>1, <1>2, <1>3, Zenon DEF Holds
<1>7. \A x \in DOMAIN i : m[JumboOf(x)] = i[x] /\ x + BLOCK_HEADER \notin Chunks(a)
  BY <1>1, <1>2, <1>4, Zenon DEF Holds
<1> QED BY <1>1, <1>2, <1>5, <1>6, <1>7, Zenon DEF Holds, m, i

-----------------------------------------------------------------------------
(* The invariant *)

Inv == Good(allocator, NULL) /\ Holds(allocator, jumbo, live)

\* A pointer to a chunk the program holds is that of a used chunk.
LEMMA HeldLemma ==
    ASSUME Inv, NEW p \in DOMAIN live, ChunkOf(p) \in Chunks(allocator)
    PROVE  ChunkOf(p) \in allocator.used /\ p = DataOf(ChunkOf(p))
<1>1. CASE \E c \in allocator.used : p = DataOf(c)
  BY <1>1, PointerLemma, Zenon DEF Inv, Holds
<1>2. CASE \E b \in DOMAIN jumbo : p = JumboOf(b)
  <2>1. PICK b \in DOMAIN jumbo : p = JumboOf(b)
    BY <1>2, Zenon
  <2>2. b \in Bases /\ b + BLOCK_HEADER \notin Chunks(allocator)
    BY Zenon DEF Inv, Holds
  <2> QED BY <2>1, <2>2, PointerLemma, Zenon
<1> QED BY <1>1, <1>2, Zenon DEF Inv, Holds

\* An allocator in order whose blocks are not jumbo blocks.
LEMMA SoundLemma ==
    ASSUME NEW a, NEW j, NEW l, Holds(a, j, l), NEW k, Good(k, NULL), NEW b,
           b \in Bases => b \notin DOMAIN j,
           b = NULL \/ b \in Bases,
           \A y \in Bases : b + BLOCK_HEADER # y + BLOCK_HEADER /\ y + BLOCK_HEADER \in Chunks(k)
                              => y + BLOCK_HEADER \in Chunks(a)
    PROVE  Sound(j, k)
<1>0. BLOCK_HEADER \in Nat /\ Bases \subseteq Nat \ {0}
  BY BlockAssumption, Zenon
<1>1. Chunks(k) \subseteq Nat /\ k.used \subseteq Chunks(k)
  BY Zenon DEF Good, Row, AllocType
<1>2. ASSUME NEW y \in DOMAIN j PROVE y + BLOCK_HEADER \notin Chunks(k)
  <2>1. y \in Bases /\ y + BLOCK_HEADER \notin Chunks(a) /\ y # b
    BY Zenon DEF Holds
  <2>2. b + BLOCK_HEADER # y + BLOCK_HEADER
    BY <2>1, <1>0 DEF NULL
  <2> QED BY <2>1, <2>2, Zenon
<1> QED BY <1>1, <1>2, Zenon DEF Sound

\* The order in which a pointer is added and another one dropped does not matter.
LEMMA SwapLemma ==
    ASSUME NEW l, NEW p, NEW q, p # q, NEW v
    PROVE  With(Without(l, p), q, v) = Without(With(l, q, v), p)
BY Zenon DEF With, Without

\* A block of the system for a request of the allocator.
LEMMA BlocksLemma ==
    ASSUME Inv, NEW size, NEW b \in BlocksFor(size)
    PROVE  /\ \/ ServedByRecycler(allocator, size) \/ Refilled(allocator, size).master # NULL
              \/ NewTo(allocator, b)
           /\ b \in Bases => b \notin DOMAIN jumbo
           /\ b = NULL \/ b \in Bases
BY PointerLemma, Zenon DEF BlocksFor, Spare, NewTo

\* malloc preserves the invariant, and so does what realloc allocates.
LEMMA AllocHolds ==
    ASSUME Inv, NEW size \in Sizes, size <= MAX_ALLOC_SIZE, NEW b \in BlocksFor(size)
    PROVE  LET k == block_alloc(allocator, size, b)
               c == Chosen(allocator, size, b)
           IN /\ Good(k, NULL) /\ Holds(k, jumbo, With(live, DataOf(c), size))
              /\ k.used = allocator.used \union {c} /\ c \notin allocator.used /\ c \in Nat
<1> DEFINE a == allocator
           k == block_alloc(a, size, b)
           c == Chosen(a, size, b)
<1>0. size \in Nat /\ Good(a, NULL) /\ Holds(a, jumbo, live)
  BY BlockAssumption, Zenon DEF Inv
<1>1. /\ ServedByRecycler(a, size) \/ Refilled(a, size).master # NULL \/ NewTo(a, b)
      /\ b \in Bases => b \notin DOMAIN jumbo
      /\ b = NULL \/ b \in Bases
  BY BlocksLemma, Zenon
<1>2. /\ Good(k, NULL) /\ c \notin a.used /\ k.used = a.used \union {c}
      /\ DataLen(k, c) >= size /\ Keeps(a, k, b) /\ c \in Nat
  BY <1>0, <1>1, AllocLemma, Zenon
<1> HIDE DEF a, k, c
<1>3. Sound(jumbo, k)
  BY <1>0, <1>1, <1>2, SoundLemma, Zenon DEF Keeps
<1>4. size <= DataLen(k, c)
  <2>1. k.len[c] \in Nat /\ CHUNK_HEADER \in Nat
    BY <1>2, BlockAssumption, Zenon DEF Good, Row, AllocType
  <2> QED BY <2>1, <1>0, <1>2, Zenon DEF DataLen
<1>5. Holds(k, jumbo, With(live, DataOf(c), size))
  BY <1>0, <1>2, <1>3, <1>4, HoldsAdd, Zenon DEF Keeps
<1> QED BY <1>2, <1>5, Zenon DEF a, k, c

\* free preserves what is held, and so does what realloc frees.
LEMMA FreeHolds ==
    ASSUME NEW a, NEW j, NEW l, Good(a, NULL), Holds(a, j, l), NEW c \in a.used
    PROVE  LET k == block_free(a, c) IN Good(k, NULL) /\ Holds(k, j, Without(l, DataOf(c)))
<1> DEFINE k == block_free(a, c)
<1>1. /\ Good(k, NULL) /\ k.used = a.used \ {c} /\ (\A x \in k.used : k.len[x] = a.len[x])
      /\ \A b \in Bases : b + BLOCK_HEADER \in Chunks(k) => b + BLOCK_HEADER \in Chunks(a)
  BY FreeLemma, Zenon
<1> HIDE DEF k
<1>2. NULL \notin Bases
  BY PointerLemma, Zenon
<1>3. Sound(j, k)
  BY <1>1, <1>2, SoundLemma, Zenon
<1> QED BY <1>1, <1>3, HoldsDrop, Zenon DEF k

\* realloc in place preserves the invariant.
LEMMA ResizeHolds ==
    ASSUME Inv, NEW p \in DOMAIN live, NEW size \in Sizes, Resize(p, size)
    PROVE  Inv'
<1> DEFINE a == allocator
           c == ChunkOf(p)
           k == allocator'
<1>0. size \in Nat /\ Good(a, NULL) /\ Holds(a, jumbo, live) /\ CHUNK_HEADER \in Nat
  BY BlockAssumption, Zenon DEF Inv
<1>1. c \in a.used /\ p = DataOf(c)
  BY HeldLemma, Zenon DEF Resize
<1>2. live' = [live EXCEPT ![DataOf(c)] = size] /\ jumbo' = jumbo
  BY <1>1, Zenon DEF Resize
<1>3. Good(k, NULL) /\ Spares(a, k, c) /\ DataLen(k, c) >= size
  <2>1. CASE size > DataLen(a, c) /\ CanGrow(a, c, size) /\ k = grow(a, c, size)
    <3> HIDE DEF a, c, k
    <3> QED BY <2>1, <1>0, <1>1, GrowLemma, Zenon
  <2>2. CASE size < DataLen(a, c) /\ k = shrink(a, c, size)
    <3> HIDE DEF a, c, k
    <3> QED BY <2>2, <1>0, <1>1, ShrinkLemma, Zenon
  <2>3. CASE size = DataLen(a, c) /\ k = a
    <3>1. DataLen(k, c) >= size
      BY <2>3, <1>0
    <3> QED BY <2>3, <3>1, <1>0, Zenon DEF Spares
  <2> QED BY <2>1, <2>2, <2>3, Zenon DEF Resize
<1> HIDE DEF a, c, k
<1>4. Sound(jumbo, k)
  <2>1. NULL \notin Bases
    BY PointerLemma, Zenon
  <2> QED BY <2>1, <1>0, <1>3, SoundLemma, Zenon DEF Spares
<1>5. size <= DataLen(k, c)
  <2>1. k.len[c] \in Nat
    BY <1>1, <1>3, Zenon DEF Good, Row, AllocType, Spares
  <2> QED BY <2>1, <1>0, <1>3, Zenon DEF DataLen
<1>6. Holds(k, jumbo, [live EXCEPT ![DataOf(c)] = size])
  BY <1>0, <1>1, <1>3, <1>4, <1>5, HoldsResize, Zenon DEF Spares
<1>7. Good(k, NULL) /\ Holds(k, jumbo', live')
  BY <1>2, <1>3, <1>6, Zenon
<1> QED BY <1>7, Zenon DEF k, Inv

\* realloc by alloc, copy and free preserves the invariant.
LEMMA MoveHolds ==
    ASSUME Inv, NEW p \in DOMAIN live, NEW size \in Sizes, Move(p, size)
    PROVE  Inv'
<1> DEFINE a == allocator
           c == ChunkOf(p)
<1>0. Good(a, NULL) /\ Holds(a, jumbo, live)
  BY Zenon DEF Inv
<1>1. c \in a.used /\ p = DataOf(c) /\ c \in Nat /\ c \in Chunks(a)
  BY HeldLemma, Zenon DEF Move, Inv, Holds
<1>2. CASE size > MAX_ALLOC_SIZE
  <2>1. PICK b \in Spare : /\ jumbo' = With(jumbo, b, size) /\ allocator' = block_free(a, c)
                           /\ live' = With(Without(live, p), JumboOf(b), size)
    BY <1>2, Zenon DEF Move
  <2>2. NewTo(a, b) /\ b \notin DOMAIN jumbo
    BY Zenon DEF Spare, NewTo
  <2> HIDE DEF a, c
  <2>3. Holds(a, jumbo', With(live, JumboOf(b), size))
    BY <2>1, <2>2, <1>0, HoldsAddJumbo, Zenon
  <2>4. p # JumboOf(b)
    BY <2>2, <1>1, PointerLemma, Zenon DEF NewTo
  <2>5. live' = Without(With(live, JumboOf(b), size), DataOf(c))
    BY <2>1, <2>4, <1>1, SwapLemma
  <2>6. Good(allocator', NULL) /\ Holds(allocator', jumbo', live')
    BY <2>1, <2>3, <2>5, <1>0, <1>1, FreeHolds, Zenon
  <2> QED BY <2>6, Zenon DEF Inv
<1>3. CASE ~(size > MAX_ALLOC_SIZE)
  <2>1. PICK b \in BlocksFor(size) :
          /\ allocator' = block_free(block_alloc(a, size, b), c)
          /\ live' = With(Without(live, p), DataOf(Chosen(a, size, b)), size)
          /\ jumbo' = jumbo
    BY <1>3, Zenon DEF Move
  <2> DEFINE k == block_alloc(a, size, b)
             d == Chosen(a, size, b)
  <2>2. size <= MAX_ALLOC_SIZE
    BY <1>3, BlockAssumption DEF MAX_ALLOC_SIZE
  <2>3. /\ Good(k, NULL) /\ Holds(k, jumbo, With(live, DataOf(d), size))
        /\ k.used = a.used \union {d} /\ d \notin a.used /\ d \in Nat
    BY <2>2, AllocHolds, Zenon
  <2> HIDE DEF a, c, k, d
  <2>4. p # DataOf(d)
    BY <2>3, <1>1, PointerLemma, Zenon
  <2>5. live' = Without(With(live, DataOf(d), size), DataOf(c))
    BY <2>1, <2>4, <1>1, SwapLemma DEF d
  <2>6. c \in k.used /\ allocator' = block_free(k, c)
    BY <2>1, <2>3, <1>1, Zenon DEF k
  <2>7. Good(allocator', NULL) /\ Holds(allocator', jumbo', live')
    BY <2>1, <2>3, <2>5, <2>6, FreeHolds, Zenon
  <2> QED BY <2>7, Zenon DEF Inv
<1> QED BY <1>2, <1>3, Zenon

\* realloc_jumbo preserves the invariant wherever the new block is.
LEMMA JumboHolds ==
    ASSUME Inv, NEW b \in DOMAIN jumbo, NEW size \in Sizes, realloc_jumbo(b, size)
    PROVE  Inv'
<1>1. PICK new \in Spare \union {b} :
        /\ jumbo' = With(Without(jumbo, b), new, size) /\ allocator' = allocator
        /\ live' = With(Without(live, JumboOf(b)), JumboOf(new), size)
  BY Zenon DEF realloc_jumbo
<1>2. Holds(allocator, Without(jumbo, b), Without(live, JumboOf(b)))
  BY HoldsDropJumbo, Zenon DEF Inv
<1>3. NewTo(allocator, new) /\ new \notin DOMAIN Without(jumbo, b)
  BY Zenon DEF Spare, NewTo, Inv, Holds, Without
<1>4. Holds(allocator, jumbo', live')
  BY <1>1, <1>2, <1>3, HoldsAddJumbo, Zenon
<1> QED BY <1>1, <1>4, Zenon DEF Inv

\* Nothing is allocated at first.
LEMMA InitInv == ASSUME Init PROVE Inv
<1> DEFINE a == allocator
<1>0. NULL = 0 /\ DOMAIN <<>> = {}
  BY DEF NULL
<1>1. /\ a.len = <<>> /\ a.prev = <<>> /\ a.last = {} /\ a.used = {} /\ a.master = NULL /\ a.recycler = <<>>
      /\ Record(a)
  <2>1. a = [len |-> <<>>, prev |-> <<>>, last |-> {}, used |-> {}, master |-> NULL, recycler |-> <<>>]
    BY Zenon DEF Init
  <2> HIDE DEF a
  <2>2. a.len = <<>> /\ a.prev = <<>> /\ a.last = {} /\ a.used = {} /\ a.master = NULL /\ a.recycler = <<>>
    BY <2>1, Zenon
  <2>3. Record(a)
    BY <2>1, Zenon DEF Record, Fields
  <2> QED BY <2>2, <2>3, Zenon
<1>2. jumbo = <<>> /\ live = <<>>
  BY Zenon DEF Init
<1> HIDE DEF a
<1>3. Chunks(a) = {} /\ FreeChunks(a) = {}
  BY <1>0, <1>1, Zenon DEF Chunks, FreeChunks
<1>4. AllocType(a)
  <2>1. a.len \in [{} -> Nat] /\ a.prev \in [{} -> Nat] /\ a.recycler \in Seq(Nat)
    BY <1>1
  <2>2. a.master \in Nat /\ Chunks(a) \subseteq Nat \ {0}
    BY <1>1, <1>3 DEF NULL
  <2> QED BY <2>1, <2>2, <1>1, <1>3, ZenonT(30) DEF AllocType
<1>5. Good(a, NULL)
  <2>1. Range(a.recycler) = {}
    BY <1>1 DEF Range
  <2>2. Row(a)
    BY <1>3, <1>4, Zenon DEF Row, TiledBy, Founded
  <2>3. Distinct(a.recycler)
    BY <1>0, <1>1, Zenon DEF Distinct
  <2> QED BY <2>1, <2>2, <2>3, <1>1, <1>3, Zenon DEF Good, Pieces, Lists, MasterLast
<1>6. Holds(a, jumbo, live)
  BY <1>0, <1>1, <1>2, <1>3, Zenon DEF Holds
<1> QED BY <1>5, <1>6, Zenon DEF Inv, a

\* Every call preserves the invariant.
LEMMA NextInv == ASSUME Inv, [Next]_vars PROVE Inv'
<1>0. Good(allocator, NULL) /\ Holds(allocator, jumbo, live)
  BY Zenon DEF Inv
<1>1. ASSUME NEW size \in Sizes, malloc(size) PROVE Inv'
  <2>1. PICK b \in BlocksFor(size) :
          /\ allocator' = block_alloc(allocator, size, b)
          /\ live' = With(live, DataOf(Chosen(allocator, size, b)), size)
    BY <1>1, Zenon DEF malloc
  <2>2. jumbo' = jumbo /\ size <= MAX_ALLOC_SIZE
    BY <1>1, Zenon DEF malloc
  <2>3. Good(allocator', NULL) /\ Holds(allocator', jumbo', live')
    BY <2>1, <2>2, AllocHolds, Zenon
  <2> QED BY <2>3, Zenon DEF Inv
<1>2. ASSUME NEW size \in Sizes, alloc_jumbo(size) PROVE Inv'
  <2>1. PICK b \in Spare : jumbo' = With(jumbo, b, size) /\ live' = With(live, JumboOf(b), size)
    BY <1>2, Zenon DEF alloc_jumbo
  <2>2. NewTo(allocator, b) /\ b \notin DOMAIN jumbo
    BY Zenon DEF Spare, NewTo
  <2>3. Holds(allocator, jumbo', live')
    BY <2>1, <2>2, <1>0, HoldsAddJumbo, Zenon
  <2> QED BY <2>3, <1>0, <1>2, Zenon DEF Inv, alloc_jumbo
<1>3. ASSUME NEW p \in DOMAIN live, free(p) PROVE Inv'
  <2>1. ChunkOf(p) \in allocator.used /\ p = DataOf(ChunkOf(p))
    BY <1>3, HeldLemma, Zenon DEF free
  <2>2. allocator' = block_free(allocator, ChunkOf(p)) /\ jumbo' = jumbo /\ live' = Without(live, p)
    BY <1>3, Zenon DEF free
  <2>3. Good(allocator', NULL) /\ Holds(allocator', jumbo', live')
    BY <2>1, <2>2, <1>0, FreeHolds, Zenon
  <2> QED BY <2>3, Zenon DEF Inv
<1>4. ASSUME NEW b \in DOMAIN jumbo, free_jumbo(b) PROVE Inv'
  <2>1. Holds(allocator, jumbo', live')
    BY <1>0, <1>4, HoldsDropJumbo, Zenon DEF free_jumbo
  <2> QED BY <2>1, <1>0, <1>4, Zenon DEF Inv, free_jumbo
<1>5. CASE UNCHANGED vars
  BY <1>0, <1>5, Zenon DEF Inv, vars
<1> QED BY <1>1, <1>2, <1>3, <1>4, <1>5, ResizeHolds, MoveHolds, JumboHolds, Zenon DEF Next

\* The invariant holds at all times.
LEMMA AllocInv == Spec => []Inv
BY InitInv, NextInv, PTL DEF Spec

\* No call leaves headers that do not describe a row of chunks, or chunks that
\* overlap: malloc, free and realloc keep the boundary tags of every block right.
THEOREM BlocksTiled == Spec => []Tiled
<1>1. Inv => Tiled
  BY Zenon DEF Inv, Good, Row, Tiled
<1> QED BY <1>1, AllocInv, PTL

\* Freed space is always merged with the free space next to it.
THEOREM FreeSpaceMerged == Spec => []NoAdjacentFree
<1>1. Inv => NoAdjacentFree
  BY GoodLemma, Zenon DEF Inv, NoAdjacentFree
<1> QED BY <1>1, AllocInv, PTL

\* The recycler and the master list hold every free chunk that has room for
\* their links, once, and no other chunk.
THEOREM FreeListsExact == Spec => []ListsExact
<1>1. Inv => ListsExact
  BY GoodLemma, Zenon DEF Inv, ListsExact, Distinct
<1> QED BY <1>1, AllocInv, PTL

\* The program holds exactly the used chunks and the jumbo blocks, and each is at
\* least as large as it asked for.
THEOREM AllocationsKept == Spec => []LiveExact
<1>1. Inv => LiveExact
  BY Zenon DEF Inv, Holds, LiveExact
<1> QED BY <1>1, AllocInv, PTL
=============================================================================
