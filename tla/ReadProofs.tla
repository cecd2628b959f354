------------------------------ MODULE ReadProofs ------------------------------
(***************************************************************************)
(* The read side beside the windows.  The pages of a freelancer's gigs are *)
(* the sorted list, for any gigs, page sizes and changes between pages;    *)
(* drafts and old copies come into the read model only in the ways that    *)
(* PublicRead names, for any number of goroutines, writes, reads and       *)
(* projections; and what GigCopies says a copy shows of its gig holds for  *)
(* any number of children.  At the end, the parts beside each other.       *)
(***************************************************************************)
EXTENDS MCReads, PreviewWindowsProofs, FiniteSetTheorems, SequenceTheorems

(***************************************************************************)
(* Pages of a list.                                                        *)
(***************************************************************************)
\* A list has as many pages as it takes for the last element.
LEMMA PagesTile ==
    ASSUME NEW len \in Nat, NEW limit \in Nat \ {0}, NEW k \in Nat
    PROVE  /\ TotalPages(len, limit) \in Nat
           /\ TotalPages(len, limit) = 0 <=> len = 0
           /\ k < TotalPages(len, limit) <=> k * limit < len
<1>1. CASE len = 0
  <2>1. k * limit >= 0 /\ k * limit \in Nat
    OBVIOUS
  <2>2. QED
    BY <1>1, <2>1 DEF TotalPages
<1>2. CASE len > 0
  <2>1. PICK pages : pages = (len + limit - 1) \div limit
    OBVIOUS
  <2>2. pages \in Nat /\ pages * limit <= len + limit - 1 /\ len + limit - 1 < pages * limit + limit
    BY <2>1
  <2>3. k < pages => k * limit < len
    <3>1. SUFFICES ASSUME k < pages PROVE k * limit < len
      OBVIOUS
    <3>2. k * limit + limit = (k + 1) * limit /\ (k + 1) * limit <= pages * limit
      BY <2>2, <3>1
    <3>3. QED
      BY <2>2, <3>2
  <2>4. k >= pages => k * limit >= len
    <3>1. SUFFICES ASSUME k >= pages PROVE k * limit >= len
      OBVIOUS
    <3>2. pages * limit <= k * limit
      BY <2>2, <3>1
    <3>3. k * limit \in Nat /\ pages * limit \in Nat
      BY <2>2
    <3>4. QED
      BY <2>2, <3>2, <3>3
  <2>5. pages # 0
    BY <1>2, <2>2
  <2>6. QED
    BY <1>2, <2>1, <2>2, <2>3, <2>4, <2>5 DEF TotalPages
<1>3. QED
  BY <1>1, <1>2

\* There is always a page size.
LEMMA LimitDefault ==
    ASSUME NEW n \in Int, NEW default \in Nat \ {0}
    PROVE  OrDefault(n, default) \in Nat \ {0}
BY DEF OrDefault

\* HasMore and TotalPages agree on which page is the last.
LEMMA MoreMeansMore ==
    ASSUME NEW len \in Nat, NEW limit \in Nat \ {0}, NEW n \in Nat \ {0}
    PROVE  HasMore(len, n, limit) <=> n < TotalPages(len, limit)
<1>1. PICK a : a = (n - 1) * limit
  OBVIOUS
<1>2. a \in Int /\ n * limit = a + limit /\ limit \in Nat
  <2>1. n * limit = (n - 1) * limit + limit /\ n - 1 \in Int
    OBVIOUS
  <2>2. (n - 1) * limit \in Int
    BY <2>1
  <2>3. QED
    BY <1>1, <2>1, <2>2
<1>3. HasMore(len, n, limit) <=>
        ~(a >= len) /\ (IF a + limit > len THEN len ELSE a + limit) < len
  BY <1>1 DEF HasMore, BeyondLast, PageEnd, PageStart
<1>4. HasMore(len, n, limit) <=> a + limit < len
  BY <1>2, <1>3
<1>5. n < TotalPages(len, limit) <=> n * limit < len
  BY PagesTile
<1>6. QED
  BY <1>2, <1>4, <1>5

\* some is what all has after its first a elements, as far as it goes.
SliceOf(some, all, a) ==
    \A k \in 1 .. Len(some) : a + k \in 1 .. Len(all) /\ some[k] = all[a + k]

\* The page after the first a elements.
LEMMA PageIsSlice ==
    ASSUME NEW S, NEW items \in Seq(S), NEW n \in Nat \ {0}, NEW limit \in Nat \ {0},
           NEW len, len = Len(items), NEW a, a = (n - 1) * limit
    PROVE  /\ a \in Nat /\ len \in Nat /\ n * limit = a + limit
           /\ Page(items, n, limit).items \in Seq(S)
           /\ Len(Page(items, n, limit).items) =
                IF a >= len THEN 0 ELSE IF a + limit > len THEN len - a ELSE limit
           /\ Page(items, n, limit).totalPages = TotalPages(len, limit)
           /\ SliceOf(Page(items, n, limit).items, items, a)
<1>1. a \in Nat /\ len \in Nat /\ n * limit = a + limit
  <2>1. n * limit = (n - 1) * limit + limit /\ n - 1 \in Nat
    OBVIOUS
  <2>2. (n - 1) * limit \in Nat
    BY <2>1
  <2>3. QED
    BY <2>1, <2>2
<1>2. Page(items, n, limit).totalPages = TotalPages(len, limit)
  BY DEF Page
<1>4. CASE a >= len
  <2>1. Page(items, n, limit).items = <<>>
    BY <1>4 DEF Page, Slice, BeyondLast, PageStart
  <2>2. QED
    BY <1>1, <1>2, <1>4, <2>1 DEF SliceOf
<1>5. CASE a < len
  <2>1. PICK b : b = IF a + limit > len THEN len ELSE a + limit
    OBVIOUS
  <2>2. Page(items, n, limit).items = SubSeq(items, a + 1, b)
    <3>1. Page(items, n, limit).items = Slice(items, n, limit)
      BY DEF Page
    <3>2. ~BeyondLast(len, n, limit) /\ PageStart(n, limit) = a /\ PageEnd(len, n, limit) = b
      BY <1>1, <1>5, <2>1 DEF BeyondLast, PageStart, PageEnd
    <3>3. QED
      BY <3>1, <3>2 DEF Slice
  <2>3. a + 1 \in 1 .. len /\ b \in a .. len /\ b - (a + 1) + 1 = b - a
    BY <1>1, <1>5, <2>1
  <2>6. \A i \in a + 1 .. b : i \in 1 .. len /\ items[i] \in S
    BY <1>1, <2>3
  <2>7. \A k \in 1 .. b - a : a + k \in 1 .. len /\ (a + 1) + k - 1 = a + k
    BY <1>1, <2>3
  <2>4. /\ SubSeq(items, a + 1, b) \in Seq(S)
        /\ Len(SubSeq(items, a + 1, b)) = b - a
        /\ \A k \in 1 .. b - a : SubSeq(items, a + 1, b)[k] = items[a + k]
    <3>1. a + 1 \in Int /\ b \in Int
      BY <1>1, <2>3
    <3>2. /\ SubSeq(items, a + 1, b) \in Seq(S)
          /\ Len(SubSeq(items, a + 1, b)) = IF a + 1 <= b THEN b - (a + 1) + 1 ELSE 0
          /\ \A k \in 1 .. b - (a + 1) + 1 :
                SubSeq(items, a + 1, b)[k] = items[(a + 1) + k - 1]
      BY <2>6, <3>1, SubSeqProperties
    <3>3. QED
      BY <1>1, <2>3, <2>7, <3>2
  <2>8. limit \in Nat /\ b - a = IF a >= len THEN 0 ELSE IF a + limit > len THEN len - a ELSE limit
    <3>1. limit \in Nat /\ ~(a >= len)
      BY <1>1, <1>5
    <3>2. CASE a + limit > len
      BY <2>1, <3>1, <3>2
    <3>3. CASE ~(a + limit > len)
      <4>1. a + limit - a = limit
        BY <1>1, <3>1
      <4>2. QED
        BY <2>1, <3>1, <3>3, <4>1
    <3>4. QED
      BY <3>2, <3>3
  <2>9. Len(Page(items, n, limit).items) =
          IF a >= len THEN 0 ELSE IF a + limit > len THEN len - a ELSE limit
    BY <2>2, <2>4, <2>8
  <2>10. \A k \in 1 .. Len(Page(items, n, limit).items) :
           a + k \in 1 .. len /\ Page(items, n, limit).items[k] = items[a + k]
    BY <2>2, <2>4, <2>7
  <2>11. QED
    BY <1>1, <1>2, <2>2, <2>4, <2>9, <2>10 DEF SliceOf
<1>6. QED
  BY <1>1, <1>4, <1>5

-----------------------------------------------------------------------------
(***************************************************************************)
(* A finite set has one sorted enumeration for a strict total order: an    *)
(* element's place is the number of those before it.                       *)
(***************************************************************************)
StrictOrder(M, R) ==
    /\ \A p \in M : <<p, p>> \notin R
    /\ \A p, q \in M : p = q \/ <<p, q>> \in R \/ <<q, p>> \in R
    /\ \A p, q, r \in M : <<p, q>> \in R /\ <<q, r>> \in R => <<p, r>> \in R

AheadOf(M, R, p) == {q \in M : <<q, p>> \in R}

\* Each element of s is at the place that the number of those before it gives.
Placed(s, M, R, n) == \A k \in 1 .. n : Cardinality(AheadOf(M, R, s[k])) = k - 1

Ascends(s, R, n) == \A j, k \in 1 .. n : j < k => <<s[j], s[k]>> \in R

\* Who comes before another has fewer before it.
LEMMA FewerAhead ==
    ASSUME NEW M, IsFiniteSet(M), NEW R, StrictOrder(M, R)
    PROVE  \A p \in M : /\ Cardinality(AheadOf(M, R, p)) \in Nat
                        /\ Cardinality(AheadOf(M, R, p)) < Cardinality(M)
                        /\ \A q \in M : <<p, q>> \in R =>
                             Cardinality(AheadOf(M, R, p)) < Cardinality(AheadOf(M, R, q))
<1>1. ASSUME NEW S, NEW T, IsFiniteSet(T), S \subseteq T, S # T
      PROVE  IsFiniteSet(S) /\ Cardinality(S) \in Nat /\ Cardinality(S) < Cardinality(T)
  <2>1. IsFiniteSet(S) /\ Cardinality(S) <= Cardinality(T) /\ Cardinality(S) # Cardinality(T)
    BY <1>1, FS_Subset
  <2>2. Cardinality(S) \in Nat /\ Cardinality(T) \in Nat
    BY <1>1, <2>1, FS_CardinalityType
  <2>3. QED
    BY <2>1, <2>2
<1>2. ASSUME NEW p \in M
      PROVE  /\ IsFiniteSet(AheadOf(M, R, p)) /\ Cardinality(AheadOf(M, R, p)) \in Nat
             /\ Cardinality(AheadOf(M, R, p)) < Cardinality(M)
  <2>1. AheadOf(M, R, p) \subseteq M /\ AheadOf(M, R, p) # M
    BY DEF AheadOf, StrictOrder
  <2>2. QED
    BY <1>1, <2>1
<1>3. ASSUME NEW p \in M, NEW q \in M, <<p, q>> \in R
      PROVE  Cardinality(AheadOf(M, R, p)) < Cardinality(AheadOf(M, R, q))
  <2>1. AheadOf(M, R, p) \subseteq AheadOf(M, R, q)
    BY <1>3 DEF AheadOf, StrictOrder
  <2>2. p \in AheadOf(M, R, q) /\ p \notin AheadOf(M, R, p)
    BY <1>3 DEF AheadOf, StrictOrder
  <2>3. QED
    BY <1>1, <1>2, <2>1, <2>2
<1>4. QED
  BY <1>2, <1>3

\* There is such an enumeration.
LEMMA CanBeSorted ==
    ASSUME NEW M, IsFiniteSet(M), NEW R, StrictOrder(M, R), NEW n, n = Cardinality(M)
    PROVE  \E s \in [1 .. n -> M] : Ascends(s, R, n)
<1>1. n \in Nat
  BY FS_CardinalityType
<1>2. PICK place : place = [p \in M |-> Cardinality(AheadOf(M, R, p)) + 1]
  OBVIOUS
<1>3. /\ place \in [M -> 1 .. n]
      /\ \A p, q \in M : <<p, q>> \in R => place[p] < place[q]
  <2>1. \A p \in M : /\ place[p] = Cardinality(AheadOf(M, R, p)) + 1
                     /\ Cardinality(AheadOf(M, R, p)) \in Nat
                     /\ Cardinality(AheadOf(M, R, p)) < n
    BY <1>2, FewerAhead
  <2>2. \A p \in M : place[p] \in 1 .. n
    BY <1>1, <2>1
  <2>3. \A p, q \in M : <<p, q>> \in R => place[p] < place[q]
    BY <2>1, FewerAhead
  <2>4. QED
    BY <1>2, <2>2, <2>3
<1>4. place \in Injection(M, 1 .. n)
  <2>1. \A p, q \in M : place[p] = place[q] => p = q
    <3>1. \A p \in M : place[p] \in Int
      BY <1>1, <1>3
    <3>2. \A p, q \in M : p = q \/ place[p] < place[q] \/ place[q] < place[p]
      BY <1>3 DEF StrictOrder
    <3>3. QED
      BY <3>1, <3>2
  <2>2. QED
    BY <1>3, <2>1 DEF Injection, IsInjective
<1>5. place \in Surjection(M, 1 .. n)
  <2>1. IsFiniteSet(1 .. n) /\ Cardinality(1 .. n) = n
    BY <1>1, FS_Interval
  <2>2. QED
    BY <1>4, <2>1, FS_Injection
<1>6. \A k \in 1 .. n : \E p \in M : place[p] = k
  BY <1>5 DEF Surjection
<1>7. PICK s : s = [k \in 1 .. n |-> CHOOSE p \in M : place[p] = k]
  OBVIOUS
<1>8. s \in [1 .. n -> M] /\ \A k \in 1 .. n : place[s[k]] = k
  BY <1>6, <1>7
<1>9. ASSUME NEW j \in 1 .. n, NEW k \in 1 .. n, j < k
      PROVE  <<s[j], s[k]>> \in R
  <2>1. s[j] \in M /\ s[k] \in M /\ place[s[j]] = j /\ place[s[k]] = k
    BY <1>8
  <2>2. j \in Int /\ k \in Int
    OBVIOUS
  <2>3. ~(<<s[k], s[j]>> \in R) /\ s[k] # s[j]
    BY <1>3, <1>9, <2>1, <2>2
  <2>4. QED
    BY <2>1, <2>3 DEF StrictOrder
<1>10. QED
  BY <1>8, <1>9 DEF Ascends

\* It has every element, at the place that the number of those before it gives.
LEMMA SortedPlaces ==
    ASSUME NEW M, IsFiniteSet(M), NEW R, StrictOrder(M, R), NEW n, n = Cardinality(M),
           NEW s \in [1 .. n -> M], Ascends(s, R, n)
    PROVE  /\ n \in Nat /\ s \in Seq(M) /\ Len(s) = n
           /\ \A p \in M : \E k \in 1 .. n : s[k] = p
           /\ Placed(s, M, R, n)
<1>1. n \in Nat /\ IsFiniteSet(1 .. n) /\ Cardinality(1 .. n) = n
  BY FS_CardinalityType, FS_Interval
<1>2. s \in Seq(M) /\ Len(s) = n
  BY <1>1
<1>3. ASSUME NEW j \in 1 .. n, NEW k \in 1 .. n
      PROVE  /\ s[j] \in M /\ s[k] \in M
             /\ j < k <=> <<s[j], s[k]>> \in R
             /\ j = k <=> s[j] = s[k]
  <2>1. s[j] \in M /\ s[k] \in M /\ j \in Int /\ k \in Int
    BY <1>1
  <2>2. j < k => <<s[j], s[k]>> \in R
    BY DEF Ascends
  <2>3. k < j => <<s[k], s[j]>> \in R
    BY DEF Ascends
  <2>4. ~(<<s[j], s[k]>> \in R /\ <<s[k], s[j]>> \in R)
    BY <2>1 DEF StrictOrder
  <2>5. s[j] = s[k] => ~(<<s[j], s[k]>> \in R) /\ ~(<<s[k], s[j]>> \in R)
    BY <2>1 DEF StrictOrder
  <2>6. j < k \/ k < j \/ j = k
    BY <2>1
  <2>7. QED
    BY <2>1, <2>2, <2>3, <2>4, <2>5, <2>6
<1>4. s \in Injection(1 .. n, M)
  BY <1>3 DEF Injection, IsInjective
<1>5. s \in Surjection(1 .. n, M)
  BY <1>1, <1>4, FS_Injection
<1>6. \A p \in M : \E k \in 1 .. n : s[k] = p
  BY <1>5 DEF Surjection
<1>7. ASSUME NEW k \in 1 .. n
      PROVE  Cardinality(AheadOf(M, R, s[k])) = k - 1
  <2>1. k \in Int /\ k - 1 \in Nat /\ 1 .. k - 1 \subseteq 1 .. n
    BY <1>1
  <2>2. PICK f : f = [j \in 1 .. k - 1 |-> s[j]]
    OBVIOUS
  <2>3. f \in [1 .. k - 1 -> AheadOf(M, R, s[k])]
    <3>1. ASSUME NEW j \in 1 .. k - 1
          PROVE  f[j] \in AheadOf(M, R, s[k])
      <4>1. j \in 1 .. n /\ j < k
        BY <2>1
      <4>2. QED
        BY <1>3, <2>2, <4>1 DEF AheadOf
    <3>2. QED
      BY <2>2, <3>1
  <2>4. \A i, j \in 1 .. k - 1 : f[i] = f[j] => i = j
    BY <1>3, <2>1, <2>2
  <2>5. \A p \in AheadOf(M, R, s[k]) : \E j \in 1 .. k - 1 : f[j] = p
    <3>1. SUFFICES ASSUME NEW p \in M, <<p, s[k]>> \in R
                   PROVE  \E j \in 1 .. k - 1 : f[j] = p
      BY DEF AheadOf
    <3>2. PICK j \in 1 .. n : s[j] = p
      BY <1>6
    <3>3. j < k
      BY <1>3, <3>1, <3>2
    <3>4. j \in 1 .. k - 1
      BY <2>1, <3>3
    <3>5. QED
      BY <2>2, <3>2, <3>4
  <2>6. ExistsBijection(1 .. k - 1, AheadOf(M, R, s[k]))
    BY <2>3, <2>4, <2>5 DEF ExistsBijection, Bijection, Injection, Surjection, IsInjective
  <2>7. IsFiniteSet(1 .. k - 1) /\ Cardinality(1 .. k - 1) = k - 1
    BY <2>1, FS_Interval
  <2>8. QED
    BY <2>6, <2>7, FS_Bijection
<1>8. Placed(s, M, R, n)
  BY <1>7 DEF Placed
<1>9. QED
  BY <1>1, <1>2, <1>6, <1>8

-----------------------------------------------------------------------------
(***************************************************************************)
(* The list of an owner.                                                   *)
(***************************************************************************)
\* A preview is a copy of its gig, not newer than the clock.
PreviewsSound ==
    \A i \in Ids : /\ previews[i] = Copy(i, previews[i].updated)
                   /\ previews[i].updated <= clock

ListInvariant == ListingTypeOK /\ PreviewsSound

ListOrder ==
    {pair \in Matching \X Matching : Before(pair[1], pair[2], query.sort, query.order)}

\* What matches are previews of gigs, one of each.
MatchingSound ==
    /\ IsFiniteSet(Matching)
    /\ \A p \in Matching : /\ p \in Preview /\ p.id \in listed /\ previews[p.id] = p
                           /\ query.status \in {"", Status(p)}
    /\ \A i \in Ids : previews[i] \in Preview /\ previews[i].id = i
    /\ \A i \in listed : query.status \in {"", Status(previews[i])} => previews[i] \in Matching
    /\ listed \subseteq Ids

LEMMA MatchingShape == ListInvariant => MatchingSound
<1> SUFFICES ASSUME ListInvariant PROVE MatchingSound
  OBVIOUS
<1>1. /\ \A i \in Ids : previews[i] \in Preview /\ previews[i].id = i
      /\ listed \subseteq Ids
  BY DEF ListInvariant, ListingTypeOK, PreviewsSound, Copy
<1>2. Matching = {p \in OwnerPreviews : query.status \in {"", Status(p)}}
  BY DEF Matching, Filtered
<1>3. Matching \subseteq OwnerPreviews
  BY <1>2
<1>4. IsFiniteSet(OwnerPreviews)
  <2>1. PICK f : f = [i \in listed |-> previews[i]]
    OBVIOUS
  <2>2. f \in Surjection(listed, OwnerPreviews)
    BY <2>1 DEF Surjection, OwnerPreviews
  <2>3. IsFiniteSet(listed)
    BY <1>1, ListingAssumption, FS_Subset
  <2>4. QED
    BY <2>2, <2>3, FS_Surjection
<1>5. IsFiniteSet(Matching)
  BY <1>3, <1>4, FS_Subset
<1>6. \A p \in OwnerPreviews : p \in Preview /\ p.id \in listed /\ previews[p.id] = p
  BY <1>1 DEF OwnerPreviews
<1>7. \A i \in listed : previews[i] \in OwnerPreviews
  BY DEF OwnerPreviews
<1>8. QED
  BY <1>1, <1>2, <1>3, <1>5, <1>6, <1>7 DEF MatchingSound

\* Before orders any two previews of different gigs.
LEMMA BeforeMeans ==
    ASSUME NEW key, NEW way, NEW p \in Preview, NEW q \in Preview
    PROVE  /\ SortKey(p, key) \in Int /\ SortKey(q, key) \in Int
           /\ p.id \in Int /\ q.id \in Int
           /\ Before(p, q, key, way) <=>
                \/ SortKey(p, key) = SortKey(q, key) /\ p.id > q.id
                \/ way = "asc" /\ SortKey(p, key) < SortKey(q, key)
                \/ way # "asc" /\ SortKey(p, key) > SortKey(q, key)
<1>1. /\ SortKey(p, key) \in Int /\ SortKey(q, key) \in Int
      /\ p.id \in Int /\ q.id \in Int
  <2>1. \A x \in Ids : x \in Int
    BY ListingAssumption
  <2>2. /\ p.id \in Ids /\ p.updated \in Nat /\ p.published \in Nat
        /\ q.id \in Ids /\ q.updated \in Nat /\ q.published \in Nat
    BY DEF Preview
  <2>3. /\ p.id \in Int /\ q.id \in Int
        /\ p.updated \in Int /\ p.published \in Int
        /\ q.updated \in Int /\ q.published \in Int
    <3>1. p.id \in Int /\ q.id \in Int
      BY <2>1, <2>2
    <3>2. \A x \in Nat : x \in Int
      OBVIOUS
    <3>3. /\ p.updated \in Int /\ p.published \in Int
          /\ q.updated \in Int /\ q.published \in Int
      BY <2>2, <3>2
    <3>4. QED
      BY <3>1, <3>3
  <2>4. QED
    BY <2>3 DEF SortKey
<1>2. PICK cmp : cmp = Compare(SortKey(p, key), SortKey(q, key))
  OBVIOUS
<1>3. /\ cmp \in Int
      /\ cmp = 0 <=> SortKey(p, key) = SortKey(q, key)
      /\ cmp < 0 <=> SortKey(p, key) < SortKey(q, key)
      /\ cmp > 0 <=> SortKey(p, key) > SortKey(q, key)
  BY <1>1, <1>2 DEF Compare
<1>4. Before(p, q, key, way) <=>
        IF cmp = 0 THEN p.id > q.id ELSE IF way = "asc" THEN cmp < 0 ELSE cmp > 0
  BY <1>2 DEF Before
<1>5. QED
  BY <1>1, <1>3, <1>4

LEMMA BeforeIsStrict ==
    ASSUME NEW key, NEW way, NEW p \in Preview, NEW q \in Preview, NEW r \in Preview
    PROVE  /\ ~Before(p, p, key, way)
           /\ p.id # q.id => Before(p, q, key, way) \/ Before(q, p, key, way)
           /\ Before(p, q, key, way) /\ Before(q, r, key, way) => Before(p, r, key, way)
<1>1. PICK kp, kq, kr : kp = SortKey(p, key) /\ kq = SortKey(q, key) /\ kr = SortKey(r, key)
  OBVIOUS
<1>2. /\ kp \in Int /\ kq \in Int /\ kr \in Int
      /\ p.id \in Int /\ q.id \in Int /\ r.id \in Int
  BY <1>1, BeforeMeans
<1>3. ~Before(p, p, key, way)
  BY <1>1, <1>2, BeforeMeans
<1>4. p.id # q.id => Before(p, q, key, way) \/ Before(q, p, key, way)
  BY <1>1, <1>2, BeforeMeans
<1>5. Before(p, q, key, way) /\ Before(q, r, key, way) => Before(p, r, key, way)
  BY <1>1, <1>2, BeforeMeans
<1>6. QED
  BY <1>3, <1>4, <1>5

LEMMA ListIsOrdered ==
    ASSUME ListInvariant
    PROVE  /\ StrictOrder(Matching, ListOrder)
           /\ \A p, q \in Matching :
                <<p, q>> \in ListOrder <=> Before(p, q, query.sort, query.order)
<1>1. \A p, q \in Matching :
        <<p, q>> \in ListOrder <=> Before(p, q, query.sort, query.order)
  BY DEF ListOrder
<1>2. \A p, q \in Matching : p.id = q.id => p = q
  BY MatchingShape DEF MatchingSound
<1>3. \A p \in Matching : p \in Preview
  BY MatchingShape DEF MatchingSound
<1>4. QED
  BY <1>1, <1>2, <1>3, BeforeIsStrict DEF StrictOrder

\* The number of gigs before p.
Ahead(p) == Cardinality(AheadOf(Matching, ListOrder, p))

\* The sorted list has each matching gig, in order, at the place those before it leave.
LEMMA SortedList ==
    ASSUME ListInvariant
    PROVE  /\ Sorted \in Seq(Matching) /\ Len(Sorted) \in Nat
           /\ Len(Sorted) = Cardinality(Matching)
           /\ \A k \in 1 .. Len(Sorted) : Sorted[k] \in Matching /\ Ahead(Sorted[k]) = k - 1
           /\ \A j, k \in 1 .. Len(Sorted) :
                j < k => Before(Sorted[j], Sorted[k], query.sort, query.order)
           /\ \A p \in Matching : \E k \in 1 .. Len(Sorted) : Sorted[k] = p
<1>1. PICK n : n = Cardinality(Matching)
  OBVIOUS
<1>2. IsFiniteSet(Matching) /\ StrictOrder(Matching, ListOrder)
  BY MatchingShape, ListIsOrdered DEF MatchingSound
<1>3. PICK s \in [1 .. n -> Matching] : Ascends(s, ListOrder, n)
  BY <1>1, <1>2, CanBeSorted
<1>4. \A f \in [1 .. n -> Matching] :
        Ascends(f, ListOrder, n) <=>
          \A j, k \in DOMAIN f : j < k => Before(f[j], f[k], query.sort, query.order)
  <2>1. SUFFICES ASSUME NEW f \in [1 .. n -> Matching]
                 PROVE  Ascends(f, ListOrder, n) <=>
                          \A j, k \in DOMAIN f :
                            j < k => Before(f[j], f[k], query.sort, query.order)
    OBVIOUS
  <2>2. DOMAIN f = 1 .. n /\ \A k \in 1 .. n : f[k] \in Matching
    OBVIOUS
  <2>3. \A j, k \in 1 .. n :
          <<f[j], f[k]>> \in ListOrder <=> Before(f[j], f[k], query.sort, query.order)
    BY <2>2, ListIsOrdered
  <2>4. QED
    BY <2>2, <2>3 DEF Ascends
<1>5. Sorted \in [1 .. n -> Matching] /\ Ascends(Sorted, ListOrder, n)
  BY <1>1, <1>3, <1>4 DEF Sorted
<1>6. PICK items : items = Sorted
  OBVIOUS
<1>7. /\ n \in Nat /\ items \in Seq(Matching) /\ Len(items) = n
      /\ \A p \in Matching : \E k \in 1 .. n : items[k] = p
      /\ \A k \in 1 .. n : Cardinality(AheadOf(Matching, ListOrder, items[k])) = k - 1
  <2>1. items \in [1 .. n -> Matching] /\ Ascends(items, ListOrder, n)
    BY <1>5, <1>6
  <2>2. QED
    <3>1. n \in Nat /\ items \in Seq(Matching) /\ Len(items) = n
      BY <1>1, <1>2, <2>1, SortedPlaces
    <3>2. \A p \in Matching : \E k \in 1 .. n : items[k] = p
      BY <1>1, <1>2, <2>1, SortedPlaces
    <3>3. \A k \in 1 .. n : Cardinality(AheadOf(Matching, ListOrder, items[k])) = k - 1
      <4>1. Placed(items, Matching, ListOrder, n)
        BY <1>1, <1>2, <2>1, SortedPlaces
      <4>2. QED
        BY <4>1 DEF Placed
    <3>4. QED
      BY <3>1, <3>2, <3>3
<1>8. DOMAIN items = 1 .. n /\ \A k \in 1 .. n : items[k] \in Matching
  BY <1>5, <1>6
<1>9. \A j, k \in 1 .. n : j < k => Before(items[j], items[k], query.sort, query.order)
  BY <1>4, <1>5, <1>6, <1>8
<1>10. \A k \in 1 .. n : items[k] \in Matching /\ Ahead(items[k]) = k - 1
  BY <1>7, <1>8 DEF Ahead
<1>11. QED
  BY <1>1, <1>6, <1>7, <1>9, <1>10

-----------------------------------------------------------------------------
(***************************************************************************)
(* The walk.                                                               *)
(***************************************************************************)
\* While nothing changes, what is seen is the list as far as the pages read go, and the
\* next page is one of the list.
WalkInvariant ==
    changed = {} =>
        /\ \A k \in 1 .. Len(seen) : k <= Len(Sorted) /\ seen[k] = Sorted[k].id
        /\ Len(seen) = IF more THEN (page - 1) * query.limit ELSE Len(Sorted)
        /\ page = 1 \/ page <= TotalPages(Len(Sorted), query.limit)
        /\ ~more => /\ page >= TotalPages(Len(Sorted), query.limit)
                    /\ total = TotalPages(Len(Sorted), query.limit)

NewestFirst == query.sort = "updated_at" /\ query.order = "desc" /\ query.status # "draft"

Shown(i) == \E k \in 1 .. Len(seen) : seen[k] = i

\* Gigs left alone that no page has shown and none will: fewer gigs are before them than
\* were on the pages read.
Missed ==
    {i \in listed \ changed :
        /\ previews[i] \in Matching
        /\ ~Shown(i)
        /\ more => Ahead(previews[i]) < (page - 1) * query.limit}

MissInvariant == NewestFirst => Cardinality(Missed) <= slips

\* What is seen grows by n gigs, those after the first a of the list.
SeenGrows(n, a) ==
    /\ \A k \in 1 .. Len(seen) : seen'[k] = seen[k]
    /\ \A k \in 1 .. n : a + k \in 1 .. Len(Sorted) /\ seen'[Len(seen) + k] = Sorted[a + k].id

\* What a page adds.
LEMMA PageRead ==
    ASSUME ListInvariant, ReadPage,
           NEW limit, limit = query.limit, NEW a, a = (page - 1) * limit,
           NEW len, len = Len(Sorted),
           NEW n, n = IF a >= len THEN 0 ELSE IF a + limit > len THEN len - a ELSE limit
    PROVE  /\ a \in Nat /\ len \in Nat /\ n \in Nat /\ limit \in Nat \ {0}
           /\ page * limit = a + limit
           /\ Len(seen) \in Nat /\ seen' \in Seq(Ids) /\ Len(seen') = Len(seen) + n
           /\ more /\ (more' <=> page * limit < len) /\ (more' => page' = page + 1)
           /\ (~more' => page' = page) /\ total' = TotalPages(len, limit)
           /\ UNCHANGED <<launched, clock, previews, listed, query, changed, slips>>
           /\ SeenGrows(n, a)
<1>1. page \in Nat \ {0} /\ limit \in Nat \ {0} /\ seen \in Seq(Ids)
  BY DEF ListInvariant, ListingTypeOK, Query
<1>2. Sorted \in Seq(Matching)
  BY SortedList
<1>3. PICK items : items = Page(Sorted, page, limit).items
  OBVIOUS
<1>4. /\ a \in Nat /\ len \in Nat /\ page * limit = a + limit
      /\ items \in Seq(Matching) /\ Len(items) = n
      /\ Page(Sorted, page, limit).totalPages = TotalPages(len, limit)
      /\ \A k \in 1 .. Len(items) : a + k \in 1 .. len /\ items[k] = Sorted[a + k]
  <2>1. /\ a \in Nat /\ len \in Nat /\ page * limit = a + limit
        /\ items \in Seq(Matching)
        /\ Page(Sorted, page, limit).totalPages = TotalPages(len, limit)
    BY <1>1, <1>2, <1>3, PageIsSlice
  <2>2. Len(items) = n
    BY <1>1, <1>2, <1>3, PageIsSlice
  <2>3. SliceOf(items, Sorted, a)
    BY <1>1, <1>2, <1>3, PageIsSlice
  <2>4. QED
    BY <2>1, <2>2, <2>3 DEF SliceOf
<1>5. n \in Nat /\ DOMAIN items = 1 .. n /\ Len(items) \in Nat
  BY <1>4
<1>6. PICK ids : ids = [k \in 1 .. n |-> items[k].id]
  OBVIOUS
<1>7. ids \in Seq(Ids) /\ Len(ids) = n /\ \A k \in 1 .. n : ids[k] = Sorted[a + k].id
  <2>1. \A k \in 1 .. n : items[k] \in Matching
    BY <1>4, <1>5
  <2>2. \A k \in 1 .. n : items[k].id \in Ids
    <3>1. MatchingSound
      BY MatchingShape
    <3>2. QED
      BY <2>1, <3>1 DEF MatchingSound
  <2>3. ids \in [1 .. n -> Ids]
    BY <1>6, <2>2
  <2>4. ids \in Seq(Ids) /\ Len(ids) = n
    BY <1>5, <2>3
  <2>5. QED
    BY <1>4, <1>6, <2>4
<1>8. /\ Response(Page(Sorted, page, limit)).ids = ids
      /\ Response(Page(Sorted, page, limit)).totalPages = TotalPages(len, limit)
  BY <1>3, <1>4, <1>5, <1>6 DEF Response
<1>9. /\ more /\ seen' = seen \o ids /\ total' = TotalPages(len, limit)
      /\ more' = (page < TotalPages(len, limit))
      /\ page' = IF page < TotalPages(len, limit) THEN page + 1 ELSE page
      /\ UNCHANGED <<launched, clock, previews, listed, query, changed, slips>>
  BY <1>8 DEF ReadPage
<1>10. page < TotalPages(len, limit) <=> page * limit < len
  BY <1>1, <1>4, PagesTile
<1>11. /\ seen \o ids \in Seq(Ids) /\ Len(seen \o ids) = Len(seen) + n
       /\ Len(seen) \in Nat
       /\ \A k \in 1 .. Len(seen) : (seen \o ids)[k] = seen[k]
       /\ \A k \in 1 .. n : (seen \o ids)[Len(seen) + k] = ids[k]
  <2>1. /\ seen \o ids \in Seq(Ids) /\ Len(seen \o ids) = Len(seen) + Len(ids)
        /\ Len(seen) \in Nat
        /\ \A k \in 1 .. Len(seen) + Len(ids) :
              (seen \o ids)[k] = IF k <= Len(seen) THEN seen[k] ELSE ids[k - Len(seen)]
    <3>1. seen \in Seq(Ids) /\ ids \in Seq(Ids)
      BY <1>1, <1>7
    <3>2. \A s, t \in Seq(Ids) :
            /\ s \o t \in Seq(Ids) /\ Len(s \o t) = Len(s) + Len(t)
            /\ \A k \in 1 .. Len(s) + Len(t) :
                  (s \o t)[k] = IF k <= Len(s) THEN s[k] ELSE t[k - Len(s)]
      BY ConcatProperties, Zenon
    <3>3. QED
      BY <3>1, <3>2
  <2>2. \A k \in 1 .. Len(seen) : k \in 1 .. Len(seen) + n /\ k <= Len(seen)
    BY <1>5, <2>1
  <2>3. \A k \in 1 .. n : /\ Len(seen) + k \in 1 .. Len(seen) + n
                          /\ ~(Len(seen) + k <= Len(seen))
                          /\ Len(seen) + k - Len(seen) = k
    BY <1>5, <2>1
  <2>4. \A k \in 1 .. n : (seen \o ids)[Len(seen) + k] = ids[k]
    BY <1>7, <2>1, <2>3
  <2>5. QED
    BY <1>7, <2>1, <2>2, <2>4
<1>12. SeenGrows(n, a)
  BY <1>4, <1>7, <1>9, <1>11 DEF SeenGrows
<1>13. QED
  BY <1>1, <1>4, <1>5, <1>9, <1>10, <1>11, <1>12

\* The list depends on the previews and the query only.
LEMMA ListStays ==
    ASSUME UNCHANGED <<previews, listed, query>>
    PROVE  /\ Matching' = Matching /\ Sorted' = Sorted /\ ListOrder' = ListOrder
           /\ \A i \in Ids : Ahead(previews[i])' = Ahead(previews[i])
<1>1. Matching' = Matching
  BY DEF Matching, Filtered, OwnerPreviews
<1>2. ListOrder' = ListOrder
  BY <1>1 DEF ListOrder
<1>3. Sorted' = Sorted
  BY <1>1 DEF Sorted
<1>4. QED
  BY <1>1, <1>2, <1>3 DEF Ahead, AheadOf

LEMMA CopyShape ==
    ASSUME launched \in [Ids -> Nat], NEW i \in Ids, NEW t \in Nat
    PROVE  /\ Copy(i, t) \in Preview
           /\ Copy(i, t).id = i /\ Copy(i, t).updated = t
           /\ Copy(i, t).published = IF launched[i] <= t THEN launched[i] ELSE 0
BY DEF Copy, Preview

\* An edit or a publication in the database changes no preview.
LEMMA QuietStep ==
    ASSUME ListInvariant, Edit \/ \E i \in Ids : Publication(i)
    PROVE  /\ clock' = clock + 1
           /\ launched' \in [Ids -> Nat]
           /\ \A j \in Ids : \/ launched'[j] = launched[j]
                             \/ launched[j] = 0 /\ launched'[j] = clock'
           /\ UNCHANGED <<previews, listed, walk, changed, slips>>
<1>1. launched \in [Ids -> Nat] /\ clock \in Nat
  BY DEF ListInvariant, ListingTypeOK
<1>2. Tick
  BY DEF Edit, Publication
<1>3. CASE Edit
  BY <1>1, <1>2, <1>3 DEF Edit, Tick
<1>4. ASSUME NEW i \in Ids, Publication(i)
      PROVE  /\ launched' \in [Ids -> Nat]
             /\ \A j \in Ids : \/ launched'[j] = launched[j]
                               \/ launched[j] = 0 /\ launched'[j] = clock'
  BY <1>1, <1>2, <1>4 DEF Publication, Tick
<1>5. QED
  BY <1>2, <1>3, <1>4 DEF Tick

\* What a step does that stores or drops the preview of gig i.
Touched(i) ==
    /\ more /\ UNCHANGED <<launched, clock, walk>>
    /\ changed' = changed \cup {i}
    /\ listed' \in SUBSET Ids
    /\ previews' \in [Ids -> Preview]
    /\ \A j \in Ids \ {i} : previews'[j] = previews[j] /\ (j \in listed' <=> j \in listed)
    /\ previews'[i] = Copy(i, previews'[i].updated)
    /\ previews'[i].updated <= clock
    /\ slips' \in 0 .. MaxSlips

\* It counts as a slip, or leaves a preview that is no older.
Slipped(i) ==
    \/ slips' = slips + 1
    \/ /\ slips' = slips /\ i \in listed'
       /\ i \in listed => previews'[i].updated >= previews[i].updated

LEMMA TouchStep ==
    ASSUME ListInvariant, NEW i \in Ids, Store(i) \/ Expire(i)
    PROVE  Touched(i) /\ Slipped(i)
<1>1. /\ launched \in [Ids -> Nat] /\ clock \in Nat /\ previews \in [Ids -> Preview]
      /\ listed \in SUBSET Ids /\ slips \in 0 .. MaxSlips /\ MaxSlips \in Nat
  BY ListingAssumption DEF ListInvariant, ListingTypeOK
<1>2. CASE Store(i)
  <2>1. PICK t \in 1 .. clock :
          /\ more /\ UNCHANGED <<launched, clock, walk>>
          /\ previews' = [previews EXCEPT ![i] = Copy(i, t)]
          /\ listed' = listed \cup {i} /\ changed' = changed \cup {i}
          /\ Slips(i \in listed /\ t < previews[i].updated)
    BY <1>2 DEF Store
  <2>2. t \in Nat /\ t <= clock
    BY <1>1
  <2>3. PICK p : p = Copy(i, t)
    OBVIOUS
  <2>4. p \in Preview /\ p.updated = t
    BY <1>1, <2>2, <2>3, CopyShape
  <2>5. previews' = [previews EXCEPT ![i] = p]
    BY <2>1, <2>3
  <2>6. /\ previews'[i] = p /\ previews' \in [Ids -> Preview]
        /\ \A j \in Ids \ {i} : previews'[j] = previews[j]
    BY <1>1, <2>4, <2>5
  <2>7. previews'[i] = Copy(i, previews'[i].updated) /\ previews'[i].updated <= clock
    BY <2>2, <2>3, <2>4, <2>6
  <2>8. /\ slips' = IF i \in listed /\ t < previews[i].updated THEN slips + 1 ELSE slips
        /\ slips' <= MaxSlips
    BY <2>1 DEF Slips
  <2>9. slips' \in 0 .. MaxSlips
    BY <1>1, <2>8
  <2>10. Touched(i)
    BY <1>1, <2>1, <2>6, <2>7, <2>9 DEF Touched
  <2>11. previews[i].updated \in Nat
    BY <1>1 DEF Preview
  <2>12. Slipped(i)
    BY <2>1, <2>2, <2>4, <2>6, <2>8, <2>11 DEF Slipped
  <2>13. QED
    BY <2>10, <2>12
<1>3. CASE Expire(i)
  <2>1. /\ slips' = slips + 1 /\ slips' <= MaxSlips
        /\ more /\ UNCHANGED <<launched, clock, walk, previews>>
        /\ listed' = listed \ {i} /\ changed' = changed \cup {i}
    BY <1>3 DEF Expire, Slips
  <2>2. slips' \in 0 .. MaxSlips
    BY <1>1, <2>1
  <2>3. QED
    BY <1>1, <2>1, <2>2 DEF ListInvariant, PreviewsSound, Touched, Slipped
<1>4. QED
  BY <1>2, <1>3

LEMMA ListStep ==
    ASSUME ListInvariant, [ListingNext]_listingVars
    PROVE  ListInvariant'
<1> USE DEF ListInvariant, ListingTypeOK, PreviewsSound
<1>1. CASE ReadPage
  <2>1. PICK limit, a, len : limit = query.limit /\ a = (page - 1) * limit /\ len = Len(Sorted)
    OBVIOUS
  <2>2. PICK n : n = IF a >= len THEN 0 ELSE IF a + limit > len THEN len - a ELSE limit
    OBVIOUS
  <2>3. /\ len \in Nat /\ limit \in Nat \ {0} /\ seen' \in Seq(Ids)
        /\ (more' => page' = page + 1) /\ (~more' => page' = page)
        /\ total' = TotalPages(len, limit)
        /\ UNCHANGED <<launched, clock, previews, listed, query, changed, slips>>
    BY <1>1, <2>1, <2>2, PageRead
  <2>4. total' \in Nat
    BY <2>3, PagesTile
  <2>5. more' \in BOOLEAN
    BY <1>1 DEF ReadPage
  <2>6. page' \in Nat \ {0}
    BY <2>3, <2>5
  <2>7. PreviewsSound'
    BY <2>3 DEF Copy
  <2>8. QED
    BY <2>3, <2>4, <2>5, <2>6, <2>7
<1>2. CASE Edit \/ \E i \in Ids : Publication(i)
  <2>1. /\ clock' = clock + 1 /\ launched' \in [Ids -> Nat]
        /\ \A j \in Ids : \/ launched'[j] = launched[j]
                          \/ launched[j] = 0 /\ launched'[j] = clock'
        /\ UNCHANGED <<previews, listed, query, page, seen, total, more, changed, slips>>
    BY <1>2, QuietStep DEF walk
  <2>2. clock \in Nat /\ clock' \in Nat
    BY <2>1
  <2>3. ASSUME NEW j \in Ids
        PROVE  previews[j] = Copy(j, previews[j].updated)' /\ previews[j].updated <= clock'
    <3>1. previews[j].updated \in Nat /\ previews[j].updated <= clock
      BY DEF Preview
    <3>2. Copy(j, previews[j].updated)' = Copy(j, previews[j].updated)
      BY <2>1, <2>2, <3>1 DEF Copy
    <3>3. QED
      BY <2>1, <2>2, <3>1, <3>2
  <2>4. QED
    BY <2>1, <2>2, <2>3
<1>4. ASSUME NEW i \in Ids, Store(i) \/ Expire(i)
      PROVE  ListInvariant'
  <2>1. Touched(i)
    BY <1>4, TouchStep
  <2>2. /\ UNCHANGED <<launched, clock, query, page, seen, total, more>>
        /\ changed' \in SUBSET Ids /\ listed' \in SUBSET Ids
        /\ previews' \in [Ids -> Preview] /\ slips' \in 0 .. MaxSlips
    BY <2>1 DEF Touched, walk
  <2>3. ASSUME NEW j \in Ids
        PROVE  (previews[j] = Copy(j, previews[j].updated) /\ previews[j].updated <= clock)'
    <3>1. previews'[j] = Copy(j, previews'[j].updated) /\ previews'[j].updated <= clock
      <4>1. CASE j = i
        BY <2>1, <4>1 DEF Touched
      <4>2. CASE j # i
        BY <2>1, <4>2 DEF Touched
      <4>3. QED
        BY <4>1, <4>2
    <3>2. QED
      BY <2>2, <3>1 DEF Copy
  <2>4. QED
    BY <2>2, <2>3
<1>3. CASE UNCHANGED listingVars
  BY <1>3 DEF listingVars, walk, Copy
<1>5. QED
  BY <1>1, <1>2, <1>3, <1>4 DEF ListingNext

LEMMA WalkStep ==
    ASSUME ListInvariant, WalkInvariant, [ListingNext]_listingVars
    PROVE  WalkInvariant'
<1>1. CASE ReadPage
  <2>1. PICK limit, a, len : limit = query.limit /\ a = (page - 1) * limit /\ len = Len(Sorted)
    OBVIOUS
  <2>2. PICK n : n = IF a >= len THEN 0 ELSE IF a + limit > len THEN len - a ELSE limit
    OBVIOUS
  <2>3. /\ a \in Nat /\ len \in Nat /\ n \in Nat /\ limit \in Nat \ {0}
        /\ page * limit = a + limit
        /\ Len(seen) \in Nat /\ Len(seen') = Len(seen) + n
        /\ more /\ (more' <=> page * limit < len) /\ (more' => page' = page + 1)
        /\ (~more' => page' = page) /\ total' = TotalPages(len, limit)
        /\ UNCHANGED <<launched, clock, previews, listed, query, changed, slips>>
    BY <1>1, <2>1, <2>2, PageRead
  <2>4. /\ \A k \in 1 .. Len(seen) : seen'[k] = seen[k]
        /\ \A k \in 1 .. n : a + k \in 1 .. len /\ seen'[Len(seen) + k] = Sorted[a + k].id
    <3>1. SeenGrows(n, a)
      BY <1>1, <2>1, <2>2, PageRead
    <3>2. QED
      BY <2>1, <3>1 DEF SeenGrows
  <2>5. Sorted' = Sorted /\ page \in Nat \ {0}
    BY <2>3, ListStays DEF ListInvariant, ListingTypeOK
  <2>6. SUFFICES ASSUME changed = {}
                 PROVE  /\ \A k \in 1 .. Len(seen') : k <= len /\ seen'[k] = Sorted[k].id
                        /\ Len(seen') = IF more' THEN (page' - 1) * limit ELSE len
                        /\ page' = 1 \/ page' <= TotalPages(len, limit)
                        /\ ~more' => /\ page' >= TotalPages(len, limit)
                                     /\ total' = TotalPages(len, limit)
    BY <2>1, <2>3, <2>5 DEF WalkInvariant
  <2>7. /\ \A k \in 1 .. Len(seen) : k <= len /\ seen[k] = Sorted[k].id
        /\ Len(seen) = a
        /\ page = 1 \/ page <= TotalPages(len, limit)
    BY <2>1, <2>3, <2>6 DEF WalkInvariant
  <2>8. a <= len
    <3>1. CASE page = 1
      <4>1. a = 0
        BY <2>1, <2>3, <3>1
      <4>2. QED
        BY <2>3, <4>1
    <3>2. CASE page <= TotalPages(len, limit)
      <4>1. page - 1 \in Nat /\ TotalPages(len, limit) \in Nat
        BY <2>3, <2>5, PagesTile
      <4>2. page - 1 < TotalPages(len, limit)
        BY <2>5, <3>2, <4>1
      <4>3. (page - 1) * limit < len
        BY <2>3, <4>1, <4>2, PagesTile
      <4>4. QED
        BY <2>1, <2>3, <4>3
    <3>3. QED
      BY <2>7, <3>1, <3>2
  <2>9. n = IF a + limit > len THEN len - a ELSE limit
    BY <2>2, <2>3, <2>8
  <2>10. ASSUME NEW k \in 1 .. Len(seen')
         PROVE  k <= len /\ seen'[k] = Sorted[k].id
    <3>1. CASE k <= a
      BY <2>3, <2>4, <2>7, <3>1
    <3>2. CASE k > a
      <4>1. PICK j : j = k - a
        OBVIOUS
      <4>2. j \in 1 .. n /\ k = a + j
        BY <2>3, <2>7, <3>2, <4>1
      <4>3. a + j \in 1 .. len /\ seen'[a + j] = Sorted[a + j].id
        BY <2>4, <2>7, <4>2
      <4>4. QED
        BY <2>3, <4>2, <4>3
    <3>3. QED
      BY <2>3, <3>1, <3>2
  <2>11. page < TotalPages(len, limit) <=> page * limit < len
    BY <2>3, <2>5, PagesTile
  <2>12. TotalPages(len, limit) \in Nat
    BY <2>3, PagesTile
  <2>13. CASE more'
    <3>1. Len(seen') = a + limit /\ page' - 1 = page
      <4>1. a + limit < len /\ page' = page + 1
        BY <2>3, <2>13
      <4>2. n = limit
        BY <2>3, <2>9, <4>1
      <4>3. Len(seen') = a + limit
        BY <2>3, <2>7, <4>2
      <4>4. page' - 1 = page
        BY <2>5, <4>1
      <4>5. QED
        BY <4>3, <4>4
    <3>2. page' <= TotalPages(len, limit)
      BY <2>3, <2>5, <2>11, <2>12, <2>13
    <3>3. QED
      BY <2>3, <2>10, <2>13, <3>1, <3>2
  <2>14. CASE ~more'
    <3>1. Len(seen') = len
      BY <2>3, <2>7, <2>8, <2>9, <2>14
    <3>2. page' >= TotalPages(len, limit)
      BY <2>3, <2>5, <2>11, <2>12, <2>14
    <3>3. page' = 1 \/ page' <= TotalPages(len, limit)
      BY <2>3, <2>7, <2>14
    <3>4. QED
      BY <2>3, <2>10, <2>14, <3>1, <3>2, <3>3
  <2>15. QED
    BY <2>13, <2>14
<1>2. CASE UNCHANGED <<previews, listed, walk, changed>>
  <2>1. Sorted' = Sorted
    BY <1>2, ListStays DEF walk
  <2>2. QED
    BY <1>2, <2>1 DEF WalkInvariant, walk
<1>3. ASSUME NEW i \in Ids, Store(i) \/ Expire(i)
      PROVE  WalkInvariant'
  <2>1. changed' # {}
    BY <1>3, TouchStep DEF Touched
  <2>2. QED
    BY <2>1 DEF WalkInvariant
<1>4. QED
  BY <1>1, <1>2, <1>3, QuietStep DEF ListingNext, listingVars

\* What others have of a step that touches gig j: those left on the list were there,
\* as they are, and gigs other than j come before them as before.
LEMMA OthersStay ==
    ASSUME ListInvariant, ListInvariant', NEW j \in Ids, Touched(j),
           NEW i \in listed' \ {j}, previews'[i] \in Matching',
           NEW p, p = previews[i]
    PROVE  /\ i \in listed /\ previews'[i] = p
           /\ p \in Matching /\ p \in Matching' /\ p \in Preview /\ Ahead(p) \in Nat /\ Ahead(p)' \in Nat
           /\ IsFiniteSet(AheadOf(Matching, ListOrder, p))
           /\ IsFiniteSet(AheadOf(Matching', ListOrder', p))
           /\ \A q \in AheadOf(Matching, ListOrder, p) :
                q.id # j => q \in AheadOf(Matching', ListOrder', p)
<1>1. /\ UNCHANGED query /\ listed \subseteq Ids
      /\ \A m \in Ids \ {j} : previews'[m] = previews[m] /\ (m \in listed' <=> m \in listed)
      /\ listed' \subseteq Ids
  BY DEF Touched, walk, ListInvariant, ListingTypeOK
<1>2. MatchingSound /\ MatchingSound'
  BY MatchingShape, PTL
<1>3. i \in listed /\ previews'[i] = p /\ p \in Matching'
  BY <1>1
<1>4. p \in Matching /\ p \in Preview
  BY <1>1, <1>2, <1>3 DEF MatchingSound
<1>5. /\ IsFiniteSet(AheadOf(Matching, ListOrder, p))
      /\ IsFiniteSet(AheadOf(Matching', ListOrder', p))
  BY <1>2, FS_Subset DEF MatchingSound, AheadOf
<1>6. Ahead(p) \in Nat /\ Ahead(p)' \in Nat
  BY <1>5, FS_CardinalityType DEF Ahead
<1>7. ASSUME NEW q \in AheadOf(Matching, ListOrder, p), q.id # j
      PROVE  q \in AheadOf(Matching', ListOrder', p)
  <2>1. q \in Matching /\ Before(q, p, query.sort, query.order)
    BY <1>4, <1>7, ListIsOrdered DEF AheadOf
  <2>2. q.id \in listed /\ previews[q.id] = q /\ query.status \in {"", Status(q)}
    BY <1>2, <2>1 DEF MatchingSound
  <2>3. q.id \in listed' /\ previews'[q.id] = q
    BY <1>1, <1>7, <2>2
  <2>4. q \in Matching'
    BY <1>1, <1>2, <2>2, <2>3 DEF MatchingSound
  <2>5. <<q, p>> \in ListOrder'
    BY <1>1, <1>3, <2>1, <2>4 DEF ListOrder
  <2>6. QED
    BY <2>4, <2>5 DEF AheadOf
<1>8. QED
  BY <1>3, <1>4, <1>5, <1>6, <1>7

\* A gig whose preview gets no older only moves towards the front: no other gig has fewer
\* before it then.
LEMMA NewerMovesToFront ==
    ASSUME ListInvariant, ListInvariant', NEW j \in Ids, Touched(j), NewestFirst,
           j \in listed', j \in listed => previews'[j].updated >= previews[j].updated,
           NEW i \in listed' \ {j}, previews'[i] \in Matching',
           NEW p, p = previews[i]
    PROVE  Ahead(p)' >= Ahead(p)
<1> DEFINE old == AheadOf(Matching, ListOrder, p)
           new == AheadOf(Matching', ListOrder', p)
<1>1. /\ p \in Matching /\ p \in Matching' /\ p \in Preview
      /\ IsFiniteSet(old) /\ IsFiniteSet(new)
      /\ \A q \in old : q.id # j => q \in new
  BY OthersStay
<1>2. /\ UNCHANGED <<query, launched>> /\ launched \in [Ids -> Nat]
      /\ \A m \in Ids \ {j} : previews'[m] = previews[m] /\ (m \in listed' <=> m \in listed)
      /\ previews[j] = Copy(j, previews[j].updated) /\ previews'[j] = Copy(j, previews'[j].updated)
  BY DEF Touched, walk, ListInvariant, ListingTypeOK, PreviewsSound
<1>3. MatchingSound /\ MatchingSound'
  BY MatchingShape, PTL
<1>4. ASSUME NEW q \in old, q.id = j
      PROVE  /\ previews[j] = q /\ previews'[j] \in new
  <2>1. q \in Matching /\ Before(q, p, query.sort, query.order)
    BY <1>1, <1>4, ListIsOrdered DEF AheadOf
  <2>2. /\ q \in Preview /\ j \in listed /\ previews[j] = q
        /\ query.status \in {"", Status(q)}
    BY <1>3, <1>4, <2>1 DEF MatchingSound
  <2>3. PICK x : x = previews'[j]
    OBVIOUS
  <2>4. x \in Preview /\ x.id = j /\ x.updated >= q.updated
    BY <1>3, <2>2, <2>3 DEF MatchingSound
  <2>5. Status(q) = "published" => Status(x) = "published"
    <3>1. q.updated \in Nat /\ x.updated \in Nat
      BY <2>2, <2>4 DEF Preview
    <3>2. /\ q.published = IF launched[j] <= q.updated THEN launched[j] ELSE 0
          /\ x.published = IF launched[j] <= x.updated THEN launched[j] ELSE 0
      <4>1. q = Copy(j, q.updated) /\ x = Copy(j, x.updated)
        BY <1>2, <2>2, <2>3
      <4>2. /\ Copy(j, q.updated).published = IF launched[j] <= q.updated THEN launched[j] ELSE 0
            /\ Copy(j, x.updated).published = IF launched[j] <= x.updated THEN launched[j] ELSE 0
        BY <1>2, <3>1, CopyShape
      <4>3. QED
        BY <4>1, <4>2
    <3>3. launched[j] \in Nat
      BY <1>2
    <3>4. q.published # 0 => x.published # 0
      BY <2>4, <3>1, <3>2, <3>3
    <3>5. QED
      BY <3>4 DEF Status
  <2>6. query.status \in {"", Status(x)}
    BY <2>2, <2>5 DEF NewestFirst, Status
  <2>7. x \in Matching'
    BY <1>2, <1>3, <2>3, <2>6 DEF MatchingSound
  <2>8. Before(x, p, query.sort, query.order)
    <3>1. query.sort = "updated_at" /\ query.order # "asc"
      BY DEF NewestFirst
    <3>2. /\ SortKey(x, query.sort) = x.updated /\ SortKey(q, query.sort) = q.updated
          /\ SortKey(p, query.sort) = p.updated
      BY <3>1 DEF SortKey
    <3>3. /\ q.updated \in Int /\ p.updated \in Int /\ p.id \in Int
          /\ \/ q.updated = p.updated /\ j > p.id
             \/ q.updated > p.updated
      BY <1>1, <1>4, <2>1, <2>2, <3>1, <3>2, BeforeMeans
    <3>4. x.updated \in Int /\ j \in Int
      <4>1. x.updated \in Nat
        BY <2>4 DEF Preview
      <4>2. j \in Int
        BY ListingAssumption
      <4>3. QED
        BY <4>1, <4>2
    <3>5. \/ x.updated = p.updated /\ x.id > p.id
          \/ x.updated > p.updated
      BY <2>4, <3>3, <3>4
    <3>6. QED
      BY <1>1, <2>4, <3>1, <3>2, <3>5, BeforeMeans
  <2>9. <<x, p>> \in ListOrder'
    BY <1>1, <1>2, <2>7, <2>8 DEF ListOrder
  <2>10. QED
    BY <2>2, <2>3, <2>7, <2>9 DEF AheadOf
<1>5. PICK f : f = [q \in old |-> IF q.id = j THEN previews'[j] ELSE q]
  OBVIOUS
<1>6. f \in Injection(old, new)
  <2>1. f \in [old -> new]
    BY <1>1, <1>4, <1>5
  <2>2. \A q, r \in old : f[q] = f[r] => q = r
    <3>1. previews'[j].id = j
      BY <1>3 DEF MatchingSound
    <3>2. \A q \in old : f[q].id = q.id
      BY <1>5, <3>1
    <3>3. QED
      BY <1>4, <1>5, <3>2
  <2>3. QED
    BY <2>1, <2>2 DEF Injection, IsInjective
<1>7. Cardinality(old) <= Cardinality(new)
  BY <1>1, <1>6, FS_Injection
<1>8. Cardinality(old) \in Nat /\ Cardinality(new) \in Nat
  BY <1>1, FS_CardinalityType
<1>9. Ahead(p) = Cardinality(old) /\ Ahead(p)' = Cardinality(new)
  BY DEF Ahead
<1>10. QED
  BY <1>7, <1>8, <1>9

\* A gig that goes back or vanishes lets the others move up by one place at most.
LEMMA SlipLetsUpByOne ==
    ASSUME ListInvariant, ListInvariant', NEW j \in Ids, Touched(j),
           NEW i \in listed' \ {j}, previews'[i] \in Matching',
           NEW p, p = previews[i]
    PROVE  Ahead(p)' >= Ahead(p) - 1
<1> DEFINE old == AheadOf(Matching, ListOrder, p)
           new == AheadOf(Matching', ListOrder', p)
           rest == old \ {previews[j]}
<1>1. /\ IsFiniteSet(old) /\ IsFiniteSet(new)
      /\ \A q \in old : q.id # j => q \in new
  BY OthersStay
<1>2. \A q \in old : previews[q.id] = q
  BY MatchingShape DEF MatchingSound, AheadOf
<1>3. rest \subseteq new
  BY <1>1, <1>2
<1>4. IsFiniteSet(rest) /\ Cardinality(rest) >= Cardinality(old) - 1
  <2>1. CASE previews[j] \in old
    <3>1. IsFiniteSet(rest) /\ Cardinality(rest) = Cardinality(old) - 1
      BY <1>1, <2>1, FS_RemoveElement
    <3>2. Cardinality(rest) \in Nat
      BY <3>1, FS_CardinalityType
    <3>3. QED
      BY <3>1, <3>2
  <2>2. CASE previews[j] \notin old
    <3>1. rest = old
      BY <2>2
    <3>2. Cardinality(old) \in Nat
      BY <1>1, FS_CardinalityType
    <3>3. IsFiniteSet(rest) /\ Cardinality(rest) = Cardinality(old)
      <4>1. PICK S : S = old
        OBVIOUS
      <4>2. rest = S /\ IsFiniteSet(S)
        BY <1>1, <3>1, <4>1
      <4>3. QED
        BY <4>1, <4>2, Zenon
    <3>4. QED
      BY <3>2, <3>3
  <2>3. QED
    BY <2>1, <2>2
<1>5. Cardinality(rest) <= Cardinality(new)
  BY <1>1, <1>3, FS_Subset
<1>6. Cardinality(old) \in Nat /\ Cardinality(new) \in Nat /\ Cardinality(rest) \in Nat
  BY <1>1, <1>4, FS_CardinalityType
<1>7. Ahead(p) = Cardinality(old) /\ Ahead(p)' = Cardinality(new)
  BY DEF Ahead
<1>8. QED
  BY <1>4, <1>5, <1>6, <1>7

\* What grows by elements of a set that has at most one grows by one at most.
LEMMA AtMostOneMore ==
    ASSUME NEW S, IsFiniteSet(S), NEW T, NEW E, T \subseteq S \cup E,
           \A x, y \in E : x = y
    PROVE  Cardinality(T) <= Cardinality(S) + 1
<1>1. CASE E = {}
  <2>1. T \subseteq S
    BY <1>1
  <2>2. Cardinality(T) <= Cardinality(S) /\ IsFiniteSet(T)
    BY <2>1, FS_Subset
  <2>3. Cardinality(T) \in Nat /\ Cardinality(S) \in Nat
    BY <2>2, FS_CardinalityType
  <2>4. QED
    BY <2>2, <2>3
<1>2. CASE E # {}
  <2>1. PICK x : x \in E
    BY <1>2
  <2>2. PICK U : U = S \cup {x}
    OBVIOUS
  <2>3. /\ IsFiniteSet(U)
        /\ Cardinality(U) = IF x \in S THEN Cardinality(S) ELSE Cardinality(S) + 1
    BY <2>2, FS_AddElement
  <2>4. T \subseteq U
    BY <2>1, <2>2
  <2>5. Cardinality(T) <= Cardinality(U) /\ IsFiniteSet(T)
    BY <2>3, <2>4, FS_Subset
  <2>6. Cardinality(T) \in Nat /\ Cardinality(S) \in Nat
    BY <2>5, FS_CardinalityType
  <2>7. QED
    BY <2>3, <2>5, <2>6
<1>3. QED
  BY <1>1, <1>2

LEMMA MissedIsFinite == ListInvariant => IsFiniteSet(Missed)
<1> SUFFICES ASSUME ListInvariant PROVE IsFiniteSet(Missed)
  OBVIOUS
<1>1. Missed \subseteq Ids
  BY DEF Missed, ListInvariant, ListingTypeOK
<1>2. QED
  BY <1>1, ListingAssumption, FS_Subset

\* Two gigs with the same number of gigs before them are the same.
LEMMA OneAtAPlace ==
    ASSUME ListInvariant, NEW i \in listed, NEW k \in listed,
           previews[i] \in Matching, previews[k] \in Matching,
           Ahead(previews[i]) = Ahead(previews[k])
    PROVE  i = k
<1>1. PICK p, q : p = previews[i] /\ q = previews[k]
  OBVIOUS
<1>2. IsFiniteSet(Matching) /\ StrictOrder(Matching, ListOrder) /\ p \in Matching /\ q \in Matching
  BY <1>1, MatchingShape, ListIsOrdered DEF MatchingSound
<1>3. Ahead(p) \in Nat /\ Ahead(q) \in Nat /\ Ahead(p) = Ahead(q)
  BY <1>1, <1>2, FewerAhead DEF Ahead
<1>4. ~(<<p, q>> \in ListOrder) /\ ~(<<q, p>> \in ListOrder)
  BY <1>2, <1>3, FewerAhead DEF Ahead
<1>5. p = q
  BY <1>2, <1>4 DEF StrictOrder
<1>6. QED
  BY <1>1, <1>5, MatchingShape DEF MatchingSound, ListInvariant, ListingTypeOK

\* A page that is read leaves no gig behind that was not.
LEMMA ReadMissesNothing ==
    ASSUME ListInvariant, ReadPage
    PROVE  Missed' \subseteq Missed
<1>1. PICK limit, a, len : limit = query.limit /\ a = (page - 1) * limit /\ len = Len(Sorted)
  OBVIOUS
<1>2. PICK n : n = IF a >= len THEN 0 ELSE IF a + limit > len THEN len - a ELSE limit
  OBVIOUS
<1>3. /\ a \in Nat /\ len \in Nat /\ n \in Nat /\ limit \in Nat \ {0}
      /\ page * limit = a + limit
      /\ Len(seen) \in Nat /\ Len(seen') = Len(seen) + n
      /\ more /\ (more' <=> page * limit < len) /\ (more' => page' = page + 1)
      /\ UNCHANGED <<launched, clock, previews, listed, query, changed, slips>>
  BY <1>1, <1>2, PageRead
<1>4. /\ \A k \in 1 .. Len(seen) : seen'[k] = seen[k]
      /\ \A k \in 1 .. n : a + k \in 1 .. len /\ seen'[Len(seen) + k] = Sorted[a + k].id
  <2>1. SeenGrows(n, a)
    BY <1>1, <1>2, PageRead
  <2>2. QED
    BY <1>1, <2>1 DEF SeenGrows
<1>5. /\ Matching' = Matching /\ page \in Nat \ {0} /\ listed \subseteq Ids
      /\ \A i \in Ids : Ahead(previews[i])' = Ahead(previews[i])
  BY <1>3, ListStays DEF ListInvariant, ListingTypeOK
<1>6. SUFFICES ASSUME NEW i \in listed \ changed, previews[i] \in Matching, ~Shown(i)',
                      more' => Ahead(previews[i]) < (page' - 1) * limit
               PROVE  ~Shown(i) /\ Ahead(previews[i]) < a
  BY <1>1, <1>3, <1>5 DEF Missed
<1>7. ~Shown(i)
  <2>1. ASSUME NEW k \in 1 .. Len(seen), seen[k] = i
        PROVE  k \in 1 .. Len(seen') /\ seen'[k] = i
    BY <1>3, <1>4, <2>1
  <2>2. QED
    BY <1>6, <2>1 DEF Shown
<1>8. ASSUME ~(Ahead(previews[i]) < a)
      PROVE  FALSE
  <2>1. PICK k \in 1 .. len : Sorted[k] = previews[i] /\ Ahead(Sorted[k]) = k - 1
    BY <1>1, <1>6, SortedList
  <2>2. k \in Int /\ k - 1 >= a /\ k <= len
    BY <1>3, <1>8, <2>1
  <2>3. CASE k <= a + limit
    <3>1. PICK j : j = k - a
      OBVIOUS
    <3>2. j \in 1 .. n /\ a + j = k
      BY <1>2, <1>3, <2>2, <2>3, <3>1
    <3>3. Len(seen) + j \in 1 .. Len(seen')
      BY <1>3, <3>2
    <3>4. seen'[Len(seen) + j] = previews[i].id
      BY <1>4, <2>1, <3>2
    <3>5. previews[i].id = i
      BY <1>5, MatchingShape DEF MatchingSound
    <3>6. QED
      BY <1>6, <3>3, <3>4, <3>5 DEF Shown
  <2>4. CASE k > a + limit
    <3>1. more' /\ page' = page + 1
      BY <1>3, <2>2, <2>4
    <3>2. page' - 1 = page
      BY <1>5, <3>1
    <3>3. k - 1 >= page * limit
      BY <1>3, <2>2, <2>4
    <3>4. ~(k - 1 < (page' - 1) * limit)
      BY <1>3, <2>2, <3>2, <3>3
    <3>5. QED
      BY <1>6, <2>1, <3>1, <3>4
  <2>5. QED
    BY <1>3, <2>2, <2>3, <2>4
<1>9. QED
  BY <1>7, <1>8

\* A preview that is stored or dropped lets no other gig slip behind the walk, but for
\* the one gig before which as many are as the pages read have shown, if it is a slip.
LEMMA TouchMisses ==
    ASSUME ListInvariant, ListInvariant', MissInvariant, NEW j \in Ids, Touched(j), Slipped(j)
    PROVE  MissInvariant'
<1>1. /\ changed' = changed \cup {j} /\ more
      /\ UNCHANGED <<query, page, seen, more>>
      /\ slips \in Nat /\ listed \subseteq Ids /\ listed' \subseteq Ids
  <2>1. slips \in Nat
    <3>1. slips \in 0 .. MaxSlips /\ MaxSlips \in Nat
      BY ListingAssumption DEF ListInvariant, ListingTypeOK
    <3>2. QED
      BY <3>1
  <2>2. QED
    BY <2>1 DEF Touched, walk, ListInvariant, ListingTypeOK
<1> SUFFICES ASSUME NewestFirst PROVE Cardinality(Missed') <= slips'
  BY <1>1 DEF MissInvariant, NewestFirst
<1>2. PICK a : a = (page - 1) * query.limit
  OBVIOUS
<1>3. a \in Int
  <2>1. page - 1 \in Int /\ query.limit \in Int
    BY DEF ListInvariant, ListingTypeOK, Query
  <2>2. QED
    BY <1>2, <2>1
<1>4. IsFiniteSet(Missed) /\ IsFiniteSet(Missed')
  <2>1. Missed' \subseteq Ids
    BY <1>1 DEF Missed
  <2>2. QED
    BY <2>1, MissedIsFinite, ListingAssumption, FS_Subset
<1>5. Cardinality(Missed) <= slips /\ Cardinality(Missed) \in Nat /\ Cardinality(Missed') \in Nat
  BY <1>4, FS_CardinalityType DEF MissInvariant
<1>6. ASSUME NEW i \in Missed'
      PROVE  /\ i \in listed' \ {j} /\ i \in listed \ changed /\ previews'[i] = previews[i]
             /\ previews[i] \in Matching /\ previews'[i] \in Matching' /\ ~Shown(i)
             /\ Ahead(previews[i]) \in Nat /\ Ahead(previews[i])' \in Nat
             /\ Ahead(previews[i])' < a
  <2>1. /\ i \in listed' \ {j} /\ i \notin changed /\ previews'[i] \in Matching' /\ ~Shown(i)
        /\ Ahead(previews[i])' < a
    BY <1>1, <1>2, <1>6 DEF Missed, Shown
  <2>2. PICK p : p = previews[i]
    OBVIOUS
  <2>3. /\ i \in listed /\ previews'[i] = p /\ p \in Matching
        /\ Ahead(p) \in Nat /\ Ahead(p)' \in Nat
    BY <2>1, <2>2, OthersStay
  <2>4. Ahead(previews[i])' = Ahead(p)' /\ Ahead(previews[i]) = Ahead(p)
    BY <2>2, <2>3 DEF Ahead
  <2>5. QED
    BY <2>1, <2>2, <2>3, <2>4
<1>7. CASE slips' = slips + 1
  <2> DEFINE E == {i \in listed : previews[i] \in Matching /\ Ahead(previews[i]) = a}
  <2>1. \A x, y \in E : x = y
    BY OneAtAPlace
  <2>2. ASSUME NEW i \in Missed'
        PROVE  i \in Missed \cup E
    <3>1. PICK p : p = previews[i]
      OBVIOUS
    <3>2. Ahead(previews[i])' >= Ahead(previews[i]) - 1
      <4>1. Ahead(p)' >= Ahead(p) - 1
        BY <1>6, <3>1, SlipLetsUpByOne
      <4>2. previews'[i] = p
        BY <1>6, <3>1
      <4>3. Ahead(previews[i])' = Ahead(p)' /\ Ahead(previews[i]) = Ahead(p)
        BY <3>1, <4>2 DEF Ahead
      <4>4. QED
        BY <4>1, <4>3
    <3>3. Ahead(previews[i]) <= a
      BY <1>3, <1>6, <3>2
    <3>4. CASE Ahead(previews[i]) = a
      BY <1>6, <3>4
    <3>5. CASE Ahead(previews[i]) # a
      <4>1. Ahead(previews[i]) < a
        BY <1>3, <1>6, <3>3, <3>5
      <4>2. QED
        BY <1>1, <1>2, <1>6, <4>1 DEF Missed
    <3>6. QED
      BY <3>4, <3>5
  <2>3. Missed' \subseteq Missed \cup E
    BY <2>2
  <2>4. Cardinality(Missed') <= Cardinality(Missed) + 1
    <3>1. PICK S, T, U : S = Missed /\ T = Missed' /\ U = E
      OBVIOUS
    <3>2. IsFiniteSet(S) /\ T \subseteq S \cup U /\ \A x, y \in U : x = y
      BY <1>4, <2>1, <2>3, <3>1
    <3>3. Cardinality(T) <= Cardinality(S) + 1
      BY <3>2, AtMostOneMore
    <3>4. QED
      BY <3>1, <3>3
  <2>5. QED
    BY <1>1, <1>5, <1>7, <2>4
<1>8. CASE slips' # slips + 1
  <2>1. /\ slips' = slips /\ j \in listed'
        /\ j \in listed => previews'[j].updated >= previews[j].updated
    BY <1>8 DEF Slipped
  <2>2. ASSUME NEW i \in Missed'
        PROVE  i \in Missed
    <3>1. PICK p : p = previews[i]
      OBVIOUS
    <3>2. Ahead(p)' >= Ahead(p)
      BY <1>6, <2>1, <3>1, NewerMovesToFront
    <3>3. previews'[i] = p
      BY <1>6, <3>1
    <3>4. Ahead(previews[i])' = Ahead(p)' /\ Ahead(previews[i]) = Ahead(p)
      BY <3>1, <3>3 DEF Ahead
    <3>5. Ahead(previews[i]) < a
      BY <1>3, <1>6, <3>2, <3>4
    <3>6. QED
      BY <1>1, <1>2, <1>6, <3>5 DEF Missed
  <2>3. Missed' \subseteq Missed
    BY <2>2
  <2>4. Cardinality(Missed') <= Cardinality(Missed)
    BY <1>4, <2>3, FS_Subset
  <2>5. QED
    BY <1>1, <1>5, <2>1, <2>4
<1>9. QED
  BY <1>7, <1>8

LEMMA MissStep ==
    ASSUME ListInvariant, MissInvariant, [ListingNext]_listingVars
    PROVE  MissInvariant'
<1>0. ListInvariant' /\ IsFiniteSet(Missed)
  BY ListStep, MissedIsFinite
<1>1. ASSUME Missed' \subseteq Missed, UNCHANGED <<query, slips>>
      PROVE  MissInvariant'
  <2>1. IsFiniteSet(Missed') /\ Cardinality(Missed') <= Cardinality(Missed)
    BY <1>0, <1>1, FS_Subset
  <2>2. Cardinality(Missed) \in Nat /\ Cardinality(Missed') \in Nat /\ slips \in Int
    <3>1. slips \in 0 .. MaxSlips /\ MaxSlips \in Nat
      BY <1>0, ListingAssumption DEF ListInvariant, ListingTypeOK
    <3>2. Cardinality(Missed) \in Nat /\ Cardinality(Missed') \in Nat
      BY <1>0, <2>1, FS_CardinalityType
    <3>3. QED
      BY <3>1, <3>2
  <2>3. QED
    BY <1>1, <2>1, <2>2 DEF MissInvariant, NewestFirst
<1>2. CASE ReadPage
  <2>1. Missed' \subseteq Missed
    BY <1>2, ReadMissesNothing
  <2>2. UNCHANGED <<query, slips>>
    BY <1>2 DEF ReadPage
  <2>3. QED
    BY <1>1, <2>1, <2>2
<1>3. CASE UNCHANGED <<previews, listed, walk, changed, slips>>
  <2>1. /\ UNCHANGED <<previews, listed, query, page, seen, more, changed, slips>>
        /\ Matching' = Matching /\ \A i \in Ids : Ahead(previews[i])' = Ahead(previews[i])
        /\ listed \subseteq Ids
    BY <1>3, ListStays DEF walk, ListInvariant, ListingTypeOK
  <2>2. Missed' \subseteq Missed
    BY <2>1 DEF Missed, Shown
  <2>3. QED
    BY <1>1, <2>1, <2>2
<1>4. CASE Edit \/ \E i \in Ids : Publication(i)
  BY <1>3, <1>4, QuietStep
<1>5. ASSUME NEW i \in Ids, Store(i) \/ Expire(i)
      PROVE  MissInvariant'
  BY <1>0, <1>5, TouchStep, TouchMisses
<1>6. CASE UNCHANGED listingVars
  BY <1>3, <1>6 DEF listingVars
<1>7. QED
  BY <1>2, <1>4, <1>5, <1>6 DEF ListingNext

LEMMA ListInit == ListingInit => ListInvariant /\ WalkInvariant /\ MissInvariant
<1> SUFFICES ASSUME ListingInit PROVE ListInvariant /\ WalkInvariant /\ MissInvariant
  OBVIOUS
<1>1. /\ clock = MaxTime /\ page = 1 /\ seen = <<>> /\ total = 0 /\ more = TRUE /\ changed = {}
      /\ listed \in SUBSET Ids /\ slips = 0
  BY DEF ListingInit
<1>2. MaxTime \in Nat /\ MaxSlips \in Nat
  BY ListingAssumption
<1>3. launched \in [Ids -> Nat]
  <2>1. launched \in [Ids -> 0 .. MaxTime]
    BY DEF ListingInit
  <2>2. 0 .. MaxTime \subseteq Nat
    BY <1>2
  <2>3. QED
    BY <2>1, <2>2
<1>4. /\ previews \in [Ids -> Preview]
      /\ \A i \in Ids : /\ previews[i] = Copy(i, previews[i].updated)
                        /\ previews[i].updated <= clock
  <2>1. PICK times \in [Ids -> 1 .. MaxTime] : previews = [i \in Ids |-> Copy(i, times[i])]
    BY DEF ListingInit
  <2>2. ASSUME NEW i \in Ids
        PROVE  /\ previews[i] \in Preview /\ previews[i] = Copy(i, previews[i].updated)
               /\ previews[i].updated <= clock
    <3>1. times[i] \in Nat /\ times[i] <= clock
      BY <1>1, <1>2
    <3>2. previews[i] = Copy(i, times[i])
      BY <2>1
    <3>3. Copy(i, times[i]) \in Preview /\ Copy(i, times[i]).updated = times[i]
      BY <1>3, <3>1, CopyShape
    <3>4. QED
      BY <3>1, <3>2, <3>3
  <2>3. DOMAIN previews = Ids /\ previews = [i \in Ids |-> previews[i]]
    BY <2>1
  <2>4. QED
    BY <2>2, <2>3
<1>5. query \in Query
  <2>1. PICK status \in Statuses, key \in Sorts, way \in {"", "asc", "desc"}, size \in Limits :
          query = [status |-> status, sort |-> NormalSort(key),
                   order |-> NormalOrder(way), limit |-> OrDefault(size, PageSize)]
    BY DEF ListingInit
  <2>2. NormalSort(key) \in {"updated_at", "published_at"}
    BY ListingAssumption DEF NormalSort
  <2>3. NormalOrder(way) \in {"asc", "desc"}
    BY DEF NormalOrder
  <2>4. OrDefault(size, PageSize) \in Nat \ {0}
    <3>1. size \in Int /\ PageSize \in Nat \ {0}
      BY ListingAssumption
    <3>2. QED
      BY <3>1, LimitDefault
  <2>5. QED
    BY <2>1, <2>2, <2>3, <2>4 DEF Query
<1>6. ListInvariant
  BY <1>1, <1>2, <1>3, <1>4, <1>5 DEF ListInvariant, ListingTypeOK, PreviewsSound
<1>7. query.limit \in Int /\ (page - 1) * query.limit = 0
  <2>1. query.limit \in Int
    BY <1>5 DEF Query
  <2>2. QED
    BY <1>1, <2>1
<1>8. WalkInvariant
  BY <1>1, <1>7 DEF WalkInvariant
<1>9. Missed = {}
  <2>1. ASSUME NEW i \in listed, previews[i] \in Matching
        PROVE  Ahead(previews[i]) \in Nat
    BY <1>6, <2>1, ListIsOrdered, MatchingShape, FewerAhead DEF Ahead, MatchingSound
  <2>2. QED
    BY <1>1, <1>7, <2>1 DEF Missed
<1>10. MissInvariant
  BY <1>1, <1>9, FS_EmptySet DEF MissInvariant
<1>11. QED
  BY <1>6, <1>8, <1>10

\* The three parts of the invariant hold together: what is listed is sound, the walk has
\* read a beginning of the list, and no more gigs left alone are behind the walk than
\* previews have slipped.
THEOREM ListingInvariance == ListingSpec => [](ListInvariant /\ WalkInvariant /\ MissInvariant)
<1>1. ListInvariant /\ WalkInvariant /\ MissInvariant /\ [ListingNext]_listingVars
        => (ListInvariant /\ WalkInvariant /\ MissInvariant)'
  BY ListStep, WalkStep, MissStep
<1>2. QED
  BY <1>1, ListInit, PTL DEF ListingSpec

\* The pages of an unchanged list are the list.
THEOREM PagesAreTheList == ListingSpec => []WalkIsTheList
<1>1. ListInvariant /\ WalkInvariant => WalkIsTheList
  <2>1. SUFFICES ASSUME ListInvariant, WalkInvariant, ~more, changed = {}
                 PROVE  /\ {seen[k] : k \in DOMAIN seen} = {p.id : p \in Matching}
                        /\ Len(seen) = Cardinality(Matching)
                        /\ \A k, n \in DOMAIN seen :
                             k < n => Before(previews[seen[k]], previews[seen[n]],
                                             query.sort, query.order)
                        /\ total = IF Matching = {} THEN 0 ELSE page
                        /\ \A k \in 1 .. page :
                             Page(Sorted, k, query.limit).hasMore <=> k < page
    BY DEF WalkIsTheList
  <2>2. PICK len, limit, pages : /\ len = Len(Sorted) /\ limit = query.limit
                                 /\ pages = TotalPages(len, limit)
    OBVIOUS
  <2>3. /\ len \in Nat /\ len = Cardinality(Matching) /\ Sorted \in Seq(Matching)
        /\ \A k \in 1 .. len : Sorted[k] \in Matching
        /\ \A j, k \in 1 .. len : j < k => Before(Sorted[j], Sorted[k], query.sort, query.order)
        /\ \A p \in Matching : \E k \in 1 .. len : Sorted[k] = p
    BY <2>1, <2>2, SortedList
  <2>4. /\ seen \in Seq(Ids) /\ page \in Nat \ {0} /\ limit \in Nat \ {0}
    BY <2>1, <2>2 DEF ListInvariant, ListingTypeOK, Query
  <2>5. /\ Len(seen) = len /\ DOMAIN seen = 1 .. len
        /\ \A k \in 1 .. len : seen[k] = Sorted[k].id
        /\ page = 1 \/ page <= pages
        /\ page >= pages /\ total = pages
    BY <2>1, <2>2, <2>4 DEF WalkInvariant
  <2>6. \A p \in Matching : previews[p.id] = p
    BY <2>1, MatchingShape DEF MatchingSound
  <2>7. {seen[k] : k \in DOMAIN seen} = {p.id : p \in Matching}
    BY <2>3, <2>5
  <2>8. \A k \in 1 .. len : previews[seen[k]] = Sorted[k]
    BY <2>3, <2>5, <2>6
  <2>9. \A k, n \in DOMAIN seen :
          k < n => Before(previews[seen[k]], previews[seen[n]], query.sort, query.order)
    BY <2>3, <2>5, <2>8
  <2>10. pages \in Nat /\ (pages = 0 <=> len = 0) /\ (Matching = {} <=> len = 0)
    <3>1. IsFiniteSet(Matching)
      BY <2>1, MatchingShape DEF MatchingSound
    <3>2. QED
      BY <2>2, <2>3, <2>4, <3>1, PagesTile, FS_EmptySet
  <2>11. total = IF Matching = {} THEN 0 ELSE page
    BY <2>4, <2>5, <2>10
  <2>12. ASSUME NEW k \in 1 .. page
         PROVE  Page(Sorted, k, query.limit).hasMore <=> k < page
    <3>1. k \in Nat \ {0}
      BY <2>4
    <3>2. Page(Sorted, k, limit).hasMore <=> k < pages
      BY <2>2, <2>3, <2>4, <3>1, MoreMeansMore DEF Page
    <3>3. QED
      BY <2>2, <2>4, <2>5, <2>10, <3>1, <3>2
  <2>13. QED
    BY <2>3, <2>5, <2>7, <2>9, <2>11, <2>12
<1>2. QED
  BY <1>1, ListingInvariance, PTL

\* A walk in the default order skips no more of the gigs left alone than previews went
\* back or vanished meanwhile: edits and publications never cost a page a gig.
THEOREM SlipsBoundTheMissed == ListingSpec => []OneMissedPerSlip
<1>1. ListInvariant /\ MissInvariant => OneMissedPerSlip
  <2>1. SUFFICES ASSUME ListInvariant, MissInvariant, ~more, NewestFirst
                 PROVE  Cardinality(Skipped) <= slips
    BY DEF OneMissedPerSlip, NewestFirst
  <2>2. DOMAIN seen = 1 .. Len(seen)
    BY <2>1 DEF ListInvariant, ListingTypeOK
  <2>3. Skipped = Missed
    BY <2>1, <2>2 DEF Skipped, Missed, Shown
  <2>4. QED
    BY <2>1, <2>3 DEF MissInvariant
<1>2. QED
  BY <1>1, ListingInvariance, PTL

-----------------------------------------------------------------------------
(***************************************************************************)
(* Public reads.  The two properties speak of the copy in the read model;  *)
(* what makes them inductive is what goroutines carry that have not stored *)
(* theirs yet.                                                             *)
(***************************************************************************)

Allowed(v) == IsPublished(v) \/ v \in requested

\* The copy of a goroutine is no newer than the row; unless the read model has been
\* written since, it is no older than the copy there; and it may be shown.
CarriesWell(w) ==
    Doing(w, "store") =>
        /\ task[w].copy <= version
        /\ w \notin early => cache <= task[w].copy
        /\ Allowed(task[w].copy)

ReadInvariant ==
    /\ PublicTypeOK
    /\ publishedAt <= version
    /\ cache <= version
    /\ DraftsComeFromProjections
    /\ \A w \in Handlers : CarriesWell(w)

USE PublicReadAssumption DEF Versions

\* Nothing is known, stored or carried at the start.
LEMMA ReadInit == PublicInit => ReadInvariant
<1> SUFFICES ASSUME PublicInit PROVE ReadInvariant
  OBVIOUS
<1>1. PublicTypeOK
  BY DEF PublicInit, PublicTypeOK, Task, NoTask
<1>2. \A w \in Handlers : ~Doing(w, "store")
  BY DEF PublicInit, Doing, NoTask
<1>3. QED
  BY <1>1, <1>2 DEF PublicInit, ReadInvariant, DraftsComeFromProjections, CarriesWell

-----------------------------------------------------------------------------
\* One goroutine's task changes, into a task.
LEMMA OneTask ==
    ASSUME task \in [Handlers -> Task], NEW w \in Handlers, NEW new \in Task,
           task' = [task EXCEPT ![w] = new]
    PROVE  /\ task' \in [Handlers -> Task]
           /\ task'[w] = new
           /\ \A v \in Handlers \ {w} : task'[v] = task[v]
OBVIOUS

\* Neither a write of the gig nor a request takes a permission away.
LEMMA AllowedStays ==
    ASSUME publishedAt \in Versions, NEW v, Allowed(v),
           publishedAt # 0 => publishedAt' = publishedAt,
           requested \subseteq requested'
    PROVE  Allowed(v)'
BY DEF Allowed, IsPublished

\* What DraftsComeFromProjections says of a step that adds a permitted copy.
LEMMA ShownStays ==
    ASSUME ReadInvariant,
           publishedAt # 0 => publishedAt' = publishedAt,
           requested \subseteq requested',
           \A v \in shown' \ shown : Allowed(v)',
           cache' = cache \/ Allowed(cache)'
    PROVE  DraftsComeFromProjections'
<1>1. publishedAt \in Versions
  BY DEF ReadInvariant, PublicTypeOK
<1>2. \A v \in shown' : Allowed(v)'
  <2> SUFFICES ASSUME NEW v \in shown', v \in shown PROVE Allowed(v)'
    OBVIOUS
  <2>1. Allowed(v)
    BY DEF ReadInvariant, DraftsComeFromProjections, Allowed
  <2>2. QED
    BY <1>1, <2>1, AllowedStays
<1>3. cache' = 0 \/ Allowed(cache)'
  <2>1. CASE cache' = cache /\ cache # 0
    <3>1. Allowed(cache)
      BY <2>1 DEF ReadInvariant, DraftsComeFromProjections, Allowed
    <3>2. Allowed(cache)'
      BY <1>1, <2>1, <3>1 DEF Allowed, IsPublished
    <3>3. QED
      BY <3>2
  <2>2. QED
    BY <2>1
<1>4. QED
  BY <1>2, <1>3 DEF DraftsComeFromProjections, Allowed

\* A goroutine that a step leaves alone still carries its copy well: the gig only gets
\* newer, and whoever stores a copy makes the others early.
LEMMA StillCarries ==
    ASSUME ReadInvariant, NEW v \in Handlers,
           task'[v] = task[v],
           version' \in Versions, version <= version',
           publishedAt # 0 => publishedAt' = publishedAt,
           requested \subseteq requested',
           Doing(v, "store") => (cache' = cache /\ v \notin early' => v \notin early)
                                /\ (cache' # cache => v \in early')
    PROVE  CarriesWell(v)'
<1> SUFFICES ASSUME Doing(v, "store")
             PROVE  /\ task[v].copy <= version'
                    /\ v \notin early' => cache' <= task[v].copy
                    /\ Allowed(task[v].copy)'
  BY DEF CarriesWell, Doing, Allowed, IsPublished
<1>1. CarriesWell(v) /\ publishedAt \in Versions /\ version \in Versions
        /\ task[v].copy \in Versions
  BY DEF ReadInvariant, PublicTypeOK, Task
<1>2. task[v].copy <= version'
  BY <1>1 DEF CarriesWell
<1>3. v \notin early' => cache' <= task[v].copy
  BY <1>1 DEF CarriesWell
<1>4. Allowed(task[v].copy)'
  BY <1>1 DEF CarriesWell, Allowed, IsPublished
<1>5. QED
  BY <1>2, <1>3, <1>4

\* A goroutine without a copy carries none badly.
LEMMA EmptyHands ==
    ASSUME NEW v \in Handlers, ~Doing(v, "store")'
    PROVE  CarriesWell(v)'
BY DEF CarriesWell

-----------------------------------------------------------------------------
\* The actions, one by one.

LEMMA CommitKeeps == ReadInvariant /\ CommitWrite => ReadInvariant'
<1> SUFFICES ASSUME ReadInvariant, CommitWrite PROVE ReadInvariant'
  OBVIOUS
<1>1. PublicTypeOK' /\ publishedAt' <= version' /\ cache' <= version'
  BY DEF ReadInvariant, PublicTypeOK, CommitWrite
<1>2. /\ version' \in Versions /\ version <= version'
      /\ publishedAt # 0 => publishedAt' = publishedAt
      /\ UNCHANGED <<cache, task, tasks, requested, shown, early>>
  BY DEF ReadInvariant, PublicTypeOK, CommitWrite
<1>3. DraftsComeFromProjections'
  BY <1>2, ShownStays
<1>4. \A v \in Handlers : CarriesWell(v)'
  BY <1>2, StillCarries
<1>5. QED
  BY <1>1, <1>3, <1>4 DEF ReadInvariant

LEMMA ProjectionKeeps ==
    ASSUME ReadInvariant, NEW w \in Handlers, BeginProjection(w)
    PROVE  ReadInvariant'
<1> DEFINE new == [kind |-> "projection", stage |-> "store", copy |-> version]
<1>1. /\ UNCHANGED <<gig, cache, shown>> /\ requested' = requested \cup {version}
      /\ task' = [task EXCEPT ![w] = new] /\ early' = early \ {w}
      /\ tasks < MaxTasks /\ tasks' = tasks + 1
  BY DEF BeginProjection, CopiesOfRow, Starts
<1>2. task \in [Handlers -> Task] /\ new \in Task
  BY DEF ReadInvariant, PublicTypeOK, Task
<1>3. /\ task' \in [Handlers -> Task] /\ task'[w] = new
      /\ \A v \in Handlers \ {w} : task'[v] = task[v]
  BY <1>1, <1>2, OneTask
<1>4. PublicTypeOK' /\ publishedAt' <= version' /\ cache' <= version'
  <2>1. version' = version /\ publishedAt' = publishedAt /\ cache' = cache /\ shown' = shown
    BY <1>1 DEF gig
  <2>2. tasks' \in 0 .. MaxTasks /\ requested' \in SUBSET Versions /\ early' \in SUBSET Handlers
    BY <1>1 DEF ReadInvariant, PublicTypeOK
  <2>3. QED
    BY <1>3, <2>1, <2>2 DEF ReadInvariant, PublicTypeOK
<1>5. DraftsComeFromProjections'
  BY <1>1, ShownStays DEF gig
<1>6. ASSUME NEW v \in Handlers PROVE CarriesWell(v)'
  <2>1. CASE v # w
    BY <1>1, <1>3, <2>1, StillCarries DEF gig, ReadInvariant, PublicTypeOK
  <2>2. CASE v = w
    <3>1. version' = version /\ cache' = cache /\ version \in requested'
      BY <1>1 DEF gig
    <3>2. task'[v].copy = version
      BY <1>3, <2>2
    <3>3. version \in Versions /\ cache <= version
      BY DEF ReadInvariant, PublicTypeOK
    <3>4. QED
      BY <3>1, <3>2, <3>3 DEF CarriesWell, Allowed
  <2>3. QED
    BY <2>1, <2>2
<1>7. QED
  BY <1>4, <1>5, <1>6 DEF ReadInvariant

LEMMA HitKeeps ==
    ASSUME ReadInvariant, NEW w \in Handlers, ReadHit(w)
    PROVE  ReadInvariant'
<1>1. /\ UNCHANGED <<gig, cache, task, requested, early>> /\ shown' = shown \cup {cache}
      /\ cache # 0 /\ tasks < MaxTasks /\ tasks' = tasks + 1
  BY DEF ReadHit
<1>2. PublicTypeOK' /\ publishedAt' <= version' /\ cache' <= version'
  BY <1>1 DEF ReadInvariant, PublicTypeOK, gig
<1>3. Allowed(cache)
  BY <1>1 DEF ReadInvariant, DraftsComeFromProjections, Allowed
<1>4. \A v \in shown' \ shown : Allowed(v)'
  BY <1>1, <1>3 DEF Allowed, IsPublished, gig
<1>5. DraftsComeFromProjections'
  BY <1>1, <1>4, ShownStays DEF gig
<1>6. \A v \in Handlers : CarriesWell(v)'
  BY <1>1, StillCarries DEF gig, ReadInvariant, PublicTypeOK
<1>7. QED
  BY <1>2, <1>5, <1>6 DEF ReadInvariant

\* A step in which w ends its task, or goes on without a copy, and the read model
\* stays as it is.
LEMMA NothingStored ==
    ASSUME ReadInvariant, NEW w \in Handlers, NEW new \in Task,
           task' = [task EXCEPT ![w] = new], new.stage # "store",
           UNCHANGED <<gig, cache, requested, shown>>,
           early' \in {early, early \ {w}}, tasks' \in 0 .. MaxTasks
    PROVE  ReadInvariant'
<1>1. task \in [Handlers -> Task]
  BY DEF ReadInvariant, PublicTypeOK
<1>2. /\ task' \in [Handlers -> Task] /\ task'[w] = new
      /\ \A v \in Handlers \ {w} : task'[v] = task[v]
  BY <1>1, OneTask
<1>3. PublicTypeOK' /\ publishedAt' <= version' /\ cache' <= version'
  BY <1>2 DEF ReadInvariant, PublicTypeOK, gig
<1>4. DraftsComeFromProjections'
  BY ShownStays DEF gig
<1>5. ASSUME NEW v \in Handlers PROVE CarriesWell(v)'
  <2>1. CASE v # w
    BY <1>2, <2>1, StillCarries DEF gig, ReadInvariant, PublicTypeOK
  <2>2. CASE v = w
    BY <1>2, <2>2, EmptyHands DEF Doing
  <2>3. QED
    BY <2>1, <2>2
<1>6. QED
  BY <1>3, <1>4, <1>5 DEF ReadInvariant

LEMMA MissKeeps ==
    ASSUME ReadInvariant, NEW w \in Handlers, ReadMiss(w)
    PROVE  ReadInvariant'
<1> DEFINE new == [kind |-> "read", stage |-> "load", copy |-> 0]
<1>1. /\ UNCHANGED <<gig, cache, requested, shown, early>>
      /\ task' = [task EXCEPT ![w] = new] /\ tasks < MaxTasks /\ tasks' = tasks + 1
  BY DEF ReadMiss, Starts
<1>2. new \in Task /\ new.stage # "store"
  BY DEF Task
<1>3. tasks' \in 0 .. MaxTasks
  BY <1>1 DEF ReadInvariant, PublicTypeOK
<1>4. QED
  BY <1>1, <1>2, <1>3, NothingStored

LEMMA LoadKeeps ==
    ASSUME ReadInvariant, NEW w \in Handlers, LoadRow(w)
    PROVE  ReadInvariant'
<1>1. UNCHANGED <<gig, cache, tasks, requested, shown>> /\ early' = early \ {w}
  BY DEF LoadRow
<1>2. task \in [Handlers -> Task] /\ tasks' \in 0 .. MaxTasks /\ version \in Versions
  BY <1>1 DEF ReadInvariant, PublicTypeOK
<1>3. CASE version > 0 /\ MayBeShown(version)
  <2> DEFINE new == [task[w] EXCEPT !.stage = "store", !.copy = version]
  <2>1. task' = [task EXCEPT ![w] = new]
    BY <1>3, <1>2 DEF LoadRow, CopiesOfRow
  <2>2. new \in Task /\ new.copy = version
    BY <1>2 DEF Task
  <2>3. /\ task' \in [Handlers -> Task] /\ task'[w] = new
        /\ \A v \in Handlers \ {w} : task'[v] = task[v]
    BY <1>2, <2>1, <2>2, OneTask
  <2>4. PublicTypeOK' /\ publishedAt' <= version' /\ cache' <= version'
    BY <1>1, <2>3 DEF ReadInvariant, PublicTypeOK, gig
  <2>5. DraftsComeFromProjections'
    BY <1>1, ShownStays DEF gig
  <2>6. ASSUME NEW v \in Handlers PROVE CarriesWell(v)'
    <3>1. CASE v # w
      BY <1>1, <1>2, <2>3, <3>1, StillCarries DEF gig
    <3>2. CASE v = w
      <4>1. version' = version /\ cache' = cache /\ task'[v].copy = version
        BY <1>1, <2>2, <2>3, <3>2 DEF gig
      <4>2. Allowed(version)'
        BY <1>1, <1>3 DEF gig, MayBeShown, Allowed, IsPublished
      <4>3. cache <= version
        BY DEF ReadInvariant
      <4>4. QED
        BY <1>2, <4>1, <4>2, <4>3 DEF CarriesWell, Allowed, IsPublished
    <3>3. QED
      BY <3>1, <3>2
  <2>7. QED
    BY <2>4, <2>5, <2>6 DEF ReadInvariant
<1>4. CASE ~(version > 0 /\ MayBeShown(version))
  <2>1. task' = [task EXCEPT ![w] = NoTask]
    BY <1>4 DEF LoadRow, Finishes
  <2>2. NoTask \in Task /\ NoTask.stage # "store"
    BY DEF Task, NoTask
  <2>3. QED
    BY <1>1, <1>2, <2>1, <2>2, NothingStored
<1>5. QED
  BY <1>3, <1>4

\* A copy is stored by w, which then has none left, and may be shown.
LEMMA StoredKeeps ==
    ASSUME ReadInvariant, NEW w \in Handlers, Doing(w, "store"), CopyStored(w), Finishes(w),
           early' = {v \in Handlers \ {w} : Doing(v, "store")},
           shown' = shown \/ shown' = shown \cup {task[w].copy},
           UNCHANGED <<gig, tasks, requested>>
    PROVE  ReadInvariant'
<1>1. task \in [Handlers -> Task] /\ task' = [task EXCEPT ![w] = NoTask] /\ NoTask \in Task
  BY DEF ReadInvariant, PublicTypeOK, Finishes, Task, NoTask
<1>2. /\ task' \in [Handlers -> Task] /\ task'[w] = NoTask
      /\ \A v \in Handlers \ {w} : task'[v] = task[v]
  BY <1>1, OneTask
<1>3. /\ task[w].copy \in Versions /\ task[w].copy <= version /\ Allowed(task[w].copy)
      /\ cache' = task[w].copy
  BY <1>1 DEF ReadInvariant, CarriesWell, CopyStored, Task
<1>4. PublicTypeOK' /\ publishedAt' <= version' /\ cache' <= version'
  BY <1>2, <1>3 DEF ReadInvariant, PublicTypeOK, gig
<1>5. Allowed(cache)'
  BY <1>3 DEF Allowed, IsPublished, gig
<1>6. \A v \in shown' \ shown : Allowed(v)'
  BY <1>3 DEF Allowed, IsPublished, gig
<1>7. DraftsComeFromProjections'
  BY <1>5, <1>6, ShownStays DEF gig
<1>8. ASSUME NEW v \in Handlers PROVE CarriesWell(v)'
  <2>1. CASE v # w
    <3>1. task'[v] = task[v] /\ (Doing(v, "store") => v \in early')
      BY <1>2, <2>1
    <3>2. version' \in Versions /\ version <= version' /\ UNCHANGED publishedAt
            /\ requested \subseteq requested'
      BY DEF gig, ReadInvariant, PublicTypeOK
    <3>3. QED
      BY <3>1, <3>2, StillCarries
  <2>2. CASE v = w
    BY <1>2, <2>2, EmptyHands DEF Doing, NoTask
  <2>3. QED
    BY <2>1, <2>2
<1>9. QED
  BY <1>4, <1>7, <1>8 DEF ReadInvariant

LEMMA StoreKeeps ==
    ASSUME ReadInvariant, NEW w \in Handlers, StoreCopy(w)
    PROVE  ReadInvariant'
<1>1. /\ Doing(w, "store") /\ CopyStored(w) /\ Finishes(w)
      /\ early' = {v \in Handlers \ {w} : Doing(v, "store")}
      /\ UNCHANGED <<gig, tasks, requested>>
  BY DEF StoreCopy
<1>2. shown' = shown \/ shown' = shown \cup {task[w].copy}
  BY DEF StoreCopy, Answers
<1>3. QED
  BY <1>1, <1>2, StoredKeeps

LEMMA FailureKeeps ==
    ASSUME ReadInvariant, NEW w \in Handlers, TaskFails(w)
    PROVE  ReadInvariant'
<1>1. Finishes(w) /\ UNCHANGED <<gig, tasks, requested, shown>>
  BY DEF TaskFails
<1>2. CASE UNCHANGED <<cache, early>>
  <2>1. task' = [task EXCEPT ![w] = NoTask] /\ NoTask \in Task /\ NoTask.stage # "store"
    BY <1>1 DEF Finishes, Task, NoTask
  <2>2. tasks' \in 0 .. MaxTasks
    BY <1>1 DEF ReadInvariant, PublicTypeOK
  <2>3. QED
    BY <1>1, <1>2, <2>1, <2>2, NothingStored
<1>3. CASE /\ Doing(w, "store") /\ CopyStored(w)
           /\ early' = {v \in Handlers \ {w} : Doing(v, "store")}
  BY <1>1, <1>3, StoredKeeps
<1>4. QED
  BY <1>2, <1>3 DEF TaskFails

LEMMA StutterKeeps == ReadInvariant /\ UNCHANGED publicVars => ReadInvariant'
<1> SUFFICES ASSUME ReadInvariant, UNCHANGED publicVars PROVE ReadInvariant'
  OBVIOUS
<1>1. UNCHANGED <<gig, cache, task, tasks, requested, shown, early>>
  BY DEF publicVars
<1>2. PublicTypeOK' /\ publishedAt' <= version' /\ cache' <= version'
  BY <1>1 DEF ReadInvariant, PublicTypeOK, gig
<1>3. DraftsComeFromProjections'
  BY <1>1, ShownStays DEF gig
<1>4. \A v \in Handlers : CarriesWell(v)'
  BY <1>1, StillCarries DEF gig, ReadInvariant, PublicTypeOK
<1>5. QED
  BY <1>2, <1>3, <1>4 DEF ReadInvariant

LEMMA StepKeeps == ReadInvariant /\ [PublicNext]_publicVars => ReadInvariant'
<1> SUFFICES ASSUME ReadInvariant, [PublicNext]_publicVars PROVE ReadInvariant'
  OBVIOUS
<1>1. CASE CommitWrite
  BY <1>1, CommitKeeps
<1>2. ASSUME NEW w \in Handlers, BeginProjection(w) PROVE ReadInvariant'
  BY <1>2, ProjectionKeeps
<1>3. ASSUME NEW w \in Handlers, ReadHit(w) PROVE ReadInvariant'
  BY <1>3, HitKeeps
<1>4. ASSUME NEW w \in Handlers, ReadMiss(w) PROVE ReadInvariant'
  BY <1>4, MissKeeps
<1>5. ASSUME NEW w \in Handlers, LoadRow(w) PROVE ReadInvariant'
  BY <1>5, LoadKeeps
<1>6. ASSUME NEW w \in Handlers, StoreCopy(w) PROVE ReadInvariant'
  BY <1>6, StoreKeeps
<1>7. ASSUME NEW w \in Handlers, TaskFails(w) PROVE ReadInvariant'
  BY <1>7, FailureKeeps
<1>8. CASE UNCHANGED publicVars
  BY <1>8, StutterKeeps
<1>9. QED
  BY <1>1, <1>2, <1>3, <1>4, <1>5, <1>6, <1>7, <1>8 DEF PublicNext

-----------------------------------------------------------------------------
\* The read side of one gig: what holds in every reachable state.
THEOREM ReadInvariance == PublicSpec => []ReadInvariant
BY ReadInit, StepKeeps, PTL DEF PublicSpec

\* Type correctness.
THEOREM PublicTypeCorrect == PublicSpec => []PublicTypeOK
<1>1. ReadInvariant => PublicTypeOK
  BY DEF ReadInvariant
<1>2. QED
  BY <1>1, ReadInvariance, PTL

\* However reads, projections and writes interleave, whatever the public has seen and
\* whatever the read model holds was published, or a projection of it was requested.
THEOREM DraftsFromProjections == PublicSpec => []DraftsComeFromProjections
<1>1. ReadInvariant => DraftsComeFromProjections
  BY DEF ReadInvariant
<1>2. QED
  BY <1>1, ReadInvariance, PTL

\* The read model only goes back to an older copy by the hand of a goroutine that had
\* its copy before the newer one was stored.
THEOREM RegressionsOverlap == PublicSpec => RegressionNeedsOverlap
<1> DEFINE Overlap == cache' < cache =>
                        \E w \in Handlers : Doing(w, "store") /\ w \in early /\ ~Doing(w, "store")'
<1>1. ReadInvariant /\ [PublicNext]_publicVars => [Overlap]_publicVars
  <2> SUFFICES ASSUME ReadInvariant, PublicNext, cache' < cache
               PROVE  \E w \in Handlers : Doing(w, "store") /\ w \in early
                                          /\ ~Doing(w, "store")'
    OBVIOUS
  <2>1. cache \in Versions
    BY DEF ReadInvariant, PublicTypeOK
  <2>2. cache' # cache
    BY <2>1
  <2>3. PICK w \in Handlers : Doing(w, "store") /\ CopyStored(w) /\ Finishes(w)
    BY <2>2 DEF PublicNext, CommitWrite, BeginProjection, ReadHit, ReadMiss, LoadRow,
                StoreCopy, TaskFails
  <2>4. task \in [Handlers -> Task] /\ CarriesWell(w) /\ task[w].copy \in Versions
    BY DEF ReadInvariant, PublicTypeOK, Task
  <2>5. w \in early
    BY <2>1, <2>3, <2>4 DEF CarriesWell, CopyStored
  <2>6. ~Doing(w, "store")'
    BY <2>3, <2>4 DEF Finishes, Doing, NoTask
  <2>7. QED
    BY <2>3, <2>5, <2>6
<1>2. QED
  BY <1>1, ReadInvariance, PTL DEF PublicSpec, RegressionNeedsOverlap

-----------------------------------------------------------------------------
(***************************************************************************)
(* GigCopies.  Whichever way a copy takes, each conversion hands on the    *)
(* fields that the next one reads.                                         *)
(***************************************************************************)

\* A record or a list that is nothing but the named fields.
Only(record, names) == record = Fields(record, names)

OnlyOf(children, names) == children = EachOf(children, names)

\* What the conversions keep of a gig: all but the id of an entry of a gallery.
Agrees(copy, original) ==
    /\ copy = [fields |-> copy.fields, packages |-> copy.packages,
               questions |-> copy.questions, media |-> copy.media]
    /\ Only(copy.fields, GigFields) /\ copy.fields = original.fields
    /\ OnlyOf(copy.packages, PackageFields) /\ copy.packages = original.packages
    /\ OnlyOf(copy.questions, QuestionFields) /\ copy.questions = original.questions
    /\ copy.media = [i \in DOMAIN copy.media |-> copy.media[i]]
    /\ DOMAIN copy.media = DOMAIN original.media
    /\ \A i \in DOMAIN original.media, f \in MediaFields :
          copy.media[i][f] = original.media[i][f]

\* A selected field is the field, and selecting twice is selecting once.
LEMMA FieldsPick ==
    ASSUME NEW record, NEW names, NEW f \in names
    PROVE  Fields(record, names)[f] = record[f]
BY DEF Fields

LEMMA FieldsTwice ==
    ASSUME NEW record, NEW names
    PROVE  Fields(Fields(record, names), names) = Fields(record, names)
BY DEF Fields

LEMMA EachOfPick ==
    ASSUME NEW children, NEW names, NEW i \in DOMAIN children
    PROVE  /\ DOMAIN EachOf(children, names) = DOMAIN children
           /\ EachOf(children, names)[i] = Fields(children[i], names)
BY DEF EachOf

LEMMA EachOfTwice ==
    ASSUME NEW children, NEW names
    PROVE  EachOf(EachOf(children, names), names) = EachOf(children, names)
BY FieldsTwice DEF EachOf

\* The fields that are named one by one are fields.
LEMMA FieldNames ==
    /\ "PictureURL" \in GigFields /\ "PictureFileID" \in GigFields
    /\ {"GigID", "FileID", "URL", "SortOrder"} = MediaFields /\ "ID" \notin MediaFields
BY DEF GigFields, MediaFields

\* The length of a list is the number of its places.
LEMMA LengthOf ==
    ASSUME NEW n \in Nat, NEW s, s = [i \in 1 .. n |-> s[i]]
    PROVE  Len(s) = n
<1> DEFINE S == {s[i] : i \in 1 .. n}
<1>1. s \in [1 .. n -> S]
  OBVIOUS
<1>2. s \in Seq(S)
  BY <1>1
<1>3. Len(s) \in Nat /\ 1 .. Len(s) = 1 .. n
  BY <1>1, <1>2, LenProperties
<1>4. QED
  BY <1>3

\* The shape of a gig of the database.
LEMMA RowShape ==
    ASSUME NEW g \in Rows
    PROVE  /\ Agrees(g, g)
           /\ \E n \in Nat : DOMAIN g.media = 1 .. n
<1> DEFINE F(picture) == [f \in GigFields |-> IF f = "PictureURL" THEN Missing
                                         ELSE IF f = "PictureFileID" THEN picture ELSE <<f, 0>>]
           P(n) == [i \in 1 .. n |-> [f \in PackageFields |-> <<f, i>>]]
           Q(n) == [i \in 1 .. n |-> [f \in QuestionFields |-> <<f, i>>]]
           M(n) == [i \in 1 .. n |-> [f \in MediaFields \cup {"ID"} |->
                                             IF f = "URL" THEN Missing ELSE <<f, i>>]]
<1>0. Rows = {[fields |-> F(picture), packages |-> P(packages), questions |-> Q(questions),
               media |-> M(media)] :
        picture \in {Missing, <<"FileID", 0>>, <<"FileID", 1>>},
        packages \in 0 .. MaxChildren, questions \in 0 .. MaxChildren,
        media \in 0 .. MaxChildren}
  BY DEF Rows
<1> HIDE DEF F, P, Q, M
<1>1. PICK picture \in {Missing, <<"FileID", 0>>, <<"FileID", 1>>}, packages \in 0 .. MaxChildren,
           questions \in 0 .. MaxChildren, media \in 0 .. MaxChildren :
        g = [fields |-> F(picture), packages |-> P(packages), questions |-> Q(questions),
             media |-> M(media)]
  BY <1>0
<1>2. g = [fields |-> g.fields, packages |-> g.packages, questions |-> g.questions,
           media |-> g.media]
  BY <1>1
<1>3. Only(g.fields, GigFields)
  <2>1. g.fields = [f \in GigFields |-> IF f = "PictureURL" THEN Missing
                                         ELSE IF f = "PictureFileID" THEN picture ELSE <<f, 0>>]
    BY <1>1 DEF F
  <2>2. QED
    BY <2>1 DEF Only, Fields
<1>4. OnlyOf(g.packages, PackageFields)
  <2>1. g.packages = [i \in 1 .. packages |-> [f \in PackageFields |-> <<f, i>>]]
    BY <1>1 DEF P
  <2>2. QED
    BY <2>1 DEF OnlyOf, EachOf, Fields
<1>5. OnlyOf(g.questions, QuestionFields)
  <2>1. g.questions = [i \in 1 .. questions |-> [f \in QuestionFields |-> <<f, i>>]]
    BY <1>1 DEF Q
  <2>2. QED
    BY <2>1 DEF OnlyOf, EachOf, Fields
<1>6. g.media = [i \in DOMAIN g.media |-> g.media[i]] /\ DOMAIN g.media = 1 .. media
  <2>1. g.media = [i \in 1 .. media |-> [f \in MediaFields \cup {"ID"} |->
                                             IF f = "URL" THEN Missing ELSE <<f, i>>]]
    BY <1>1 DEF M
  <2>2. QED
    BY <2>1
<1>7. media \in Nat
  BY GigCopiesAssumption
<1>8. QED
  BY <1>2, <1>3, <1>4, <1>5, <1>6, <1>7 DEF Agrees

\* The event of a write carries the gig.
LEMMA EventCarries ==
    ASSUME NEW g \in Rows, NEW p, p = FromPublishedPayload(ToPublishedPayload(g))
    PROVE  Agrees(p, g)
<1>1. PICK payload : payload = ToPublishedPayload(g)
  OBVIOUS
<1>2. Agrees(g, g)
  BY RowShape
<1>3. /\ payload.fields = g.fields /\ payload.packages = g.packages
      /\ payload.questions = g.questions
      /\ payload.media = [i \in DOMAIN g.media |->
                      [Fields(g.media[i], MediaFields \cup {"ID"}) EXCEPT
                          !["ID"] = g.media[i]["FileID"]]]
  BY <1>1, <1>2 DEF ToPublishedPayload, Agrees, Only, OnlyOf
<1>4. /\ DOMAIN payload.media = DOMAIN g.media
      /\ \A i \in DOMAIN g.media, f \in MediaFields : payload.media[i][f] = g.media[i][f]
  BY <1>3, FieldsPick, FieldNames DEF Fields
<1>5. p = [fields    |-> Fields(payload.fields, GigFields),
           packages  |-> EachOf(payload.packages, PackageFields),
           questions |-> EachOf(payload.questions, QuestionFields),
           media     |-> [i \in DOMAIN payload.media |->
                      [Fields(payload.media[i], MediaFields \cup {"ID"}) EXCEPT
                          !["ID"] = Missing]]]
  BY <1>1 DEF FromPublishedPayload
<1>6. /\ p = [fields |-> p.fields, packages |-> p.packages, questions |-> p.questions,
              media |-> p.media]
      /\ p.fields = g.fields /\ p.packages = g.packages /\ p.questions = g.questions
      /\ p.media = [i \in DOMAIN payload.media |->
                      [Fields(payload.media[i], MediaFields \cup {"ID"}) EXCEPT
                          !["ID"] = Missing]]
  BY <1>2, <1>3, <1>5 DEF Agrees, Only, OnlyOf
<1>7. /\ p.media = [i \in DOMAIN p.media |-> p.media[i]]
      /\ DOMAIN p.media = DOMAIN g.media
  BY <1>4, <1>6
<1>8. \A i \in DOMAIN g.media, f \in MediaFields : p.media[i][f] = g.media[i][f]
  BY <1>4, <1>6, FieldsPick, FieldNames DEF Fields
<1>9. QED
  BY <1>2, <1>6, <1>7, <1>8 DEF Agrees

\* Whoever asks for the URLs of a copy asks for those of the gig.
LEMMA SameFiles ==
    ASSUME NEW p, NEW g, Agrees(p, g)
    PROVE  FilesOf(p) = FilesOf(g) /\ UrlAnswers(p) = UrlAnswers(g)
<1>1. \A i \in DOMAIN g.media : p.media[i]["FileID"] = g.media[i]["FileID"]
  BY FieldNames DEF Agrees
<1>2. FilesOf(p) = FilesOf(g)
  BY <1>1 DEF FilesOf, Agrees
<1>3. QED
  BY <1>2 DEF UrlAnswers

\* What Project makes of a copy.
LEMMA ProjectFacts ==
    ASSUME NEW p, NEW g, Agrees(p, g), NEW given, NEW s, s = Project(p, given)
    PROVE  /\ s.packages = g.packages /\ s.questions = g.questions
           /\ Only(s.fields, GigFields)
           /\ \A f \in GigFields \ {"PictureURL"} : s.fields[f] = g.fields[f]
           /\ g.fields["PictureFileID"] # Missing =>
                s.fields["PictureURL"] = given[g.fields["PictureFileID"]]
           /\ DOMAIN s.media = DOMAIN g.media
           /\ \A i \in DOMAIN g.media :
                /\ s.media[i]["URL"] = given[g.media[i]["FileID"]]
                /\ s.media[i]["GigID"] = g.media[i]["GigID"]
                /\ s.media[i]["SortOrder"] = g.media[i]["SortOrder"]
<1>1. /\ p = [fields |-> p.fields, packages |-> p.packages, questions |-> p.questions,
              media |-> p.media]
      /\ p.packages = g.packages /\ p.questions = g.questions
      /\ p.fields = g.fields /\ DOMAIN p.media = DOMAIN g.media
      /\ \A i \in DOMAIN g.media, f \in MediaFields : p.media[i][f] = g.media[i][f]
  BY DEF Agrees
<1>2. p.fields = [f \in GigFields |-> p.fields[f]]
  BY DEF Agrees, Only, Fields
<1>3. /\ s.packages = p.packages /\ s.questions = p.questions
      /\ s.fields = [p.fields EXCEPT !["PictureURL"] =
           IF p.fields["PictureFileID"] = Missing THEN p.fields["PictureURL"]
           ELSE given[p.fields["PictureFileID"]]]
      /\ s.media = [i \in DOMAIN p.media |->
                     [f \in MediaFields \cup {"ID"} |->
                         CASE f = "ID"  -> Missing
                           [] f = "URL" -> given[p.media[i]["FileID"]]
                           [] OTHER     -> p.media[i][f]]]
  BY <1>1 DEF Project
<1>4. Only(s.fields, GigFields)
  BY <1>2, <1>3 DEF Only, Fields
<1>5. \A f \in GigFields \ {"PictureURL"} : s.fields[f] = g.fields[f]
  BY <1>1, <1>2, <1>3
<1>6. g.fields["PictureFileID"] # Missing =>
        s.fields["PictureURL"] = given[g.fields["PictureFileID"]]
  BY <1>1, <1>2, <1>3, FieldNames
<1>7. ASSUME NEW i \in DOMAIN g.media
      PROVE  /\ s.media[i]["URL"] = given[g.media[i]["FileID"]]
             /\ s.media[i]["GigID"] = g.media[i]["GigID"]
             /\ s.media[i]["SortOrder"] = g.media[i]["SortOrder"]
  <2>1. s.media[i] = [f \in MediaFields \cup {"ID"} |->
                         CASE f = "ID"  -> Missing
                           [] f = "URL" -> given[p.media[i]["FileID"]]
                           [] OTHER     -> p.media[i][f]]
    BY <1>1, <1>3
  <2>2. /\ s.media[i]["URL"] = given[p.media[i]["FileID"]]
        /\ s.media[i]["GigID"] = p.media[i]["GigID"]
        /\ s.media[i]["SortOrder"] = p.media[i]["SortOrder"]
    BY <2>1, FieldNames
  <2>3. QED
    BY <1>1, <2>2, FieldNames
<1>8. DOMAIN s.media = DOMAIN g.media
  BY <1>1, <1>3
<1>9. QED
  BY <1>1, <1>3, <1>4, <1>5, <1>6, <1>7, <1>8

\* The gig as a projected copy shows it, whether that copy was stored in between or not.
LEMMA ProjectedShows ==
    ASSUME NEW p, Agrees(p, row), row \in Rows, NEW given, NEW s, s = Project(p, given),
           NEW t,
           /\ t.fields = Fields(s.fields, GigFields)
           /\ t.packages = row.packages /\ t.questions = row.questions
           /\ DOMAIN t.media = DOMAIN row.media
           /\ \A i \in DOMAIN row.media, f \in {"GigID", "URL", "SortOrder"} :
                t.media[i][f] = s.media[i][f]
    PROVE  AsInRow(ToPublic(t), given)
<1> DEFINE names == GigFields \ {"PictureFileID"}
           left == MediaFields \ {"FileID"}
<1>1. PICK q : q = ToPublic(t)
  OBVIOUS
<1>2. Agrees(row, row)
  BY RowShape
<1>3. /\ q.fields = Fields(t.fields, names)
      /\ q.packages = EachOf(t.packages, PackageFields)
      /\ q.questions = EachOf(t.questions, QuestionFields)
      /\ q.media = EachOf(t.media, left)
  BY <1>1 DEF ToPublic
<1>4. q.packages = row.packages /\ q.questions = row.questions
  BY <1>2, <1>3 DEF Agrees, OnlyOf
<1>5. ASSUME NEW f \in names PROVE q.fields[f] = s.fields[f]
  BY <1>3, FieldsPick
<1>6. PICK g : g = row
  OBVIOUS
<1>7. /\ \A f \in GigFields \ {"PictureURL"} : s.fields[f] = g.fields[f]
      /\ g.fields["PictureFileID"] # Missing =>
           s.fields["PictureURL"] = given[g.fields["PictureFileID"]]
      /\ \A i \in DOMAIN g.media :
           /\ s.media[i]["URL"] = given[g.media[i]["FileID"]]
           /\ s.media[i]["GigID"] = g.media[i]["GigID"]
           /\ s.media[i]["SortOrder"] = g.media[i]["SortOrder"]
  BY <1>6, ProjectFacts
<1>8. /\ \A f \in GigFields \ {"PictureFileID", "PictureURL"} : q.fields[f] = row.fields[f]
      /\ row.fields["PictureFileID"] # Missing =>
           q.fields["PictureURL"] = given[row.fields["PictureFileID"]]
  BY <1>5, <1>6, <1>7, FieldNames
<1>9. DOMAIN q.media = DOMAIN row.media
  BY <1>3 DEF EachOf
<1>10. Len(q.media) = Len(row.media)
  <2>1. PICK n \in Nat : DOMAIN row.media = 1 .. n
    BY RowShape
  <2>2. row.media = [i \in 1 .. n |-> row.media[i]]
    BY <1>2, <2>1 DEF Agrees
  <2>3. q.media = [i \in 1 .. n |-> q.media[i]]
    BY <1>3, <1>9, <2>1 DEF EachOf
  <2>4. QED
    BY <2>2, <2>3, LengthOf
<1>11. ASSUME NEW i \in DOMAIN row.media
       PROVE  /\ q.media[i]["URL"] = given[row.media[i]["FileID"]]
              /\ \A f \in {"GigID", "SortOrder"} : q.media[i][f] = row.media[i][f]
  <2>1. \A f \in {"GigID", "URL", "SortOrder"} : q.media[i][f] = s.media[i][f]
    <3>1. q.media[i] = Fields(t.media[i], left)
      BY <1>3, EachOfPick
    <3>2. \A f \in {"GigID", "URL", "SortOrder"} : f \in left
      BY FieldNames
    <3>3. QED
      BY <3>1, <3>2, FieldsPick
  <2>2. QED
    BY <1>6, <1>7, <2>1
<1>12. QED
  BY <1>1, <1>4, <1>8, <1>10, <1>11 DEF AsInRow

\* A copy that comes straight from the database.
LEMMA LoadedShows ==
    ASSUME row \in Rows, NEW given
    PROVE  AsInRow(ToPublic(Project(row, given)), given)
<1>1. PICK s : s = Project(row, given)
  OBVIOUS
<1>2. Agrees(row, row)
  BY RowShape
<1>3. s.fields = Fields(s.fields, GigFields)
  BY <1>1, <1>2, ProjectFacts DEF Only
<1>4. /\ s.packages = row.packages /\ s.questions = row.questions
      /\ DOMAIN s.media = DOMAIN row.media
  BY <1>1, <1>2, ProjectFacts
<1>5. QED
  BY <1>1, <1>2, <1>3, <1>4, ProjectedShows

\* A copy that was stored in Redis.
LEMMA StoredShows ==
    ASSUME row \in Rows, NEW p, Agrees(p, row), NEW given
    PROVE  AsInRow(ToPublic(FromReadModelPayload(ToReadModelPayload(Project(p, given)))), given)
<1>1. PICK s : s = Project(p, given)
  OBVIOUS
<1>2. PICK payload : payload = ToReadModelPayload(s)
  OBVIOUS
<1>3. PICK t : t = FromReadModelPayload(payload)
  OBVIOUS
<1>4. /\ s.packages = row.packages /\ s.questions = row.questions
      /\ DOMAIN s.media = DOMAIN row.media
  BY <1>1, ProjectFacts
<1>5. Agrees(row, row)
  BY RowShape
<1>6. /\ payload.fields = Fields(s.fields, GigFields)
      /\ payload.packages = row.packages /\ payload.questions = row.questions
      /\ payload.media = [i \in DOMAIN row.media |->
                      [f \in {"ID", "GigID", "URL", "SortOrder"} |->
                          s.media[i][IF f = "ID" THEN "FileID" ELSE f]]]
  BY <1>2, <1>4, <1>5 DEF ToReadModelPayload, QuestionsOf, Agrees, OnlyOf
<1>7. /\ t.fields = Fields(payload.fields, GigFields)
      /\ t.packages = row.packages /\ t.questions = row.questions
      /\ t.media = [i \in DOMAIN payload.media |->
                      [f \in MediaFields \cup {"ID"} |->
                          IF f = "ID" THEN Missing
                          ELSE payload.media[i][IF f = "FileID" THEN "ID" ELSE f]]]
  BY <1>3, <1>5, <1>6 DEF FromReadModelPayload, Agrees, OnlyOf
<1>8. t.fields = Fields(s.fields, GigFields)
  BY <1>6, <1>7, FieldsTwice
<1>9. DOMAIN payload.media = DOMAIN row.media /\ DOMAIN t.media = DOMAIN row.media
  BY <1>6, <1>7
<1>10. ASSUME NEW i \in DOMAIN row.media, NEW f \in {"GigID", "URL", "SortOrder"}
       PROVE  t.media[i][f] = s.media[i][f]
  <2>1. payload.media[i] = [h \in {"ID", "GigID", "URL", "SortOrder"} |->
                          s.media[i][IF h = "ID" THEN "FileID" ELSE h]]
    BY <1>6
  <2>2. payload.media[i][f] = s.media[i][f]
    BY <2>1
  <2>3. t.media[i] = [h \in MediaFields \cup {"ID"} |->
                          IF h = "ID" THEN Missing
                          ELSE payload.media[i][IF h = "FileID" THEN "ID" ELSE h]]
    BY <1>7, <1>9
  <2>4. t.media[i][f] = payload.media[i][f]
    BY <2>3, FieldNames
  <2>5. QED
    BY <2>2, <2>4
<1>11. AsInRow(ToPublic(t), given)
  <2>1. /\ t.fields = Fields(s.fields, GigFields)
        /\ t.packages = row.packages /\ t.questions = row.questions
        /\ DOMAIN t.media = DOMAIN row.media
        /\ \A i \in DOMAIN row.media, f \in {"GigID", "URL", "SortOrder"} :
             t.media[i][f] = s.media[i][f]
    BY <1>7, <1>8, <1>9, <1>10
  <2>2. QED
    BY <1>1, <2>1, ProjectedShows
<1>12. QED
  BY <1>1, <1>2, <1>3, <1>11

\* What the copies are, step by step.
CopyInvariant ==
    /\ row \in Rows
    /\ event \in {Missing, <<ToPublishedPayload(row)>>}
    /\ stored # Missing =>
         /\ urls \in UrlAnswers(row)
         /\ AsInRow(ToPublic(FromReadModelPayload(stored[1])), urls)
    /\ answer # Missing => \E given \in UrlAnswers(row) : AsInRow(answer[1], given)

LEMMA CopyStart == CopyInit => CopyInvariant
BY DEF CopyInit, CopyInvariant

LEMMA AsInRowStays ==
    ASSUME row' = row
    PROVE  UrlAnswers(row)' = UrlAnswers(row)
           /\ \A q, given : AsInRow(q, given) => AsInRow(q, given)'
BY DEF AsInRow

LEMMA CopyStep == CopyInvariant /\ [CopyNext]_copyVars => CopyInvariant'
<1> SUFFICES ASSUME CopyInvariant, [CopyNext]_copyVars PROVE CopyInvariant'
  OBVIOUS
<1>1. row \in Rows /\ row' = row
  BY DEF CopyInvariant, CopyNext, Announce, Consume, ShowStored, ShowLoaded, copyVars
<1>2. CASE Announce
  BY <1>1, <1>2, AsInRowStays DEF CopyInvariant, Announce
<1>3. CASE Consume
  <2>1. event = <<ToPublishedPayload(row)>>
    BY <1>3 DEF CopyInvariant, Consume
  <2>2. PICK p : p = FromPublishedPayload(ToPublishedPayload(row))
    OBVIOUS
  <2>3. Agrees(p, row)
    BY <1>1, <2>2, EventCarries
  <2>4. PICK given \in UrlAnswers(p) :
          stored' = <<ToReadModelPayload(Project(p, given))>> /\ urls' = given
    BY <1>3, <2>1, <2>2 DEF Consume
  <2>5. given \in UrlAnswers(row)
    BY <2>3, SameFiles
  <2>6. stored'[1] = ToReadModelPayload(Project(p, given))
    BY <2>4
  <2>7. AsInRow(ToPublic(FromReadModelPayload(stored'[1])), urls')
    BY <1>1, <2>3, <2>4, <2>6, StoredShows
  <2>8. QED
    BY <1>1, <1>3, <2>4, <2>5, <2>7, AsInRowStays DEF CopyInvariant, Consume
<1>4. CASE ShowStored
  <2>1. /\ stored # Missing /\ UNCHANGED <<row, event, stored, urls>>
        /\ answer' = <<ToPublic(FromReadModelPayload(stored[1]))>>
    BY <1>4 DEF ShowStored
  <2>2. answer'[1] = ToPublic(FromReadModelPayload(stored[1]))
    BY <2>1
  <2>3. urls \in UrlAnswers(row) /\ AsInRow(answer'[1], urls)
    BY <2>1, <2>2 DEF CopyInvariant
  <2>4. QED
    BY <1>1, <2>1, <2>3, AsInRowStays DEF CopyInvariant
<1>5. CASE ShowLoaded
  <2>1. PICK given \in UrlAnswers(row) :
          /\ stored' = <<ToReadModelPayload(Project(row, given))>>
          /\ answer' = <<ToPublic(Project(row, given))>>
          /\ urls' = given
    BY <1>5 DEF ShowLoaded
  <2>2. /\ stored'[1] = ToReadModelPayload(Project(row, given))
        /\ answer'[1] = ToPublic(Project(row, given))
    BY <2>1
  <2>3. Agrees(row, row)
    BY <1>1, RowShape
  <2>4. /\ AsInRow(ToPublic(FromReadModelPayload(stored'[1])), urls')
        /\ AsInRow(answer'[1], given)
    BY <1>1, <2>1, <2>2, <2>3, StoredShows, LoadedShows
  <2>5. QED
    BY <1>1, <1>5, <2>1, <2>4, AsInRowStays DEF CopyInvariant, ShowLoaded
<1>6. CASE UNCHANGED copyVars
  BY <1>1, <1>6, AsInRowStays DEF CopyInvariant, copyVars, copies
<1>7. QED
  BY <1>2, <1>3, <1>4, <1>5, <1>6 DEF CopyNext

\* The public sees all of the gig, whichever way its copy has come, with any number of
\* packages, questions and files.
THEOREM CopiesShow == CopySpec => []CopiesShowTheRow
<1>1. CopyInvariant => CopiesShowTheRow
  BY DEF CopyInvariant, CopiesShowTheRow
<1>2. QED
  BY <1>1, CopyStart, CopyStep, PTL DEF CopySpec

-----------------------------------------------------------------------------
(***************************************************************************)
(* The parts beside each other.                                            *)
(***************************************************************************)

\* In each behaviour of the whole read side every part behaves as it is specified, so
\* what is proved of a part holds of the whole.
THEOREM PartsBehave ==
    Spec => WindowsSpec /\ PublicSpec /\ CopySpec /\ ListingSpec
<1>1. Init => WindowsInit /\ PublicInit /\ CopyInit /\ ListingInit
  BY DEF Init
<1>2. [Next]_<<part, windowVars, publicVars, copyVars, listingVars>> =>
        /\ [WindowsNext]_windowVars /\ [PublicNext]_publicVars
        /\ [CopyNext]_copyVars /\ [ListingNext]_listingVars
  BY DEF Next, WindowsMove, PublicMoves, CopiesMove, ListingMoves
<1>3. QED
  BY <1>1, <1>2, PTL DEF Spec, WindowsSpec, PublicSpec, CopySpec, ListingSpec

\* Every copy is there or not, step by step.
CopyIsOneOrNone(copy) == Len(copy) \in {0, 1}

LEMMA OneOrNone == CopyIsOneOrNone(Missing) /\ \A x : CopyIsOneOrNone(<<x>>)
BY DEF CopyIsOneOrNone, Missing

LEMMA CopyTypes ==
    ASSUME CopyTypeOK, [CopyNext]_copyVars
    PROVE  CopyTypeOK'
<1>1. row' = row
  BY DEF CopyNext, Announce, Consume, ShowStored, ShowLoaded, copyVars
<1>2. /\ CopyIsOneOrNone(event) /\ CopyIsOneOrNone(stored) /\ CopyIsOneOrNone(answer)
      /\ row \in Rows
  BY DEF CopyTypeOK, CopyIsOneOrNone
<1>3. SUFFICES /\ CopyIsOneOrNone(event') /\ CopyIsOneOrNone(stored')
               /\ CopyIsOneOrNone(answer')
  BY <1>1, <1>2 DEF CopyTypeOK, CopyIsOneOrNone
<1>4. CASE Announce
  BY <1>2, <1>4, OneOrNone, Zenon DEF Announce
<1>5. CASE Consume
  BY <1>2, <1>5, OneOrNone, Zenon DEF Consume
<1>6. CASE ShowStored
  BY <1>2, <1>6, OneOrNone, Zenon DEF ShowStored
<1>7. CASE ShowLoaded
  BY <1>2, <1>7, OneOrNone, Zenon DEF ShowLoaded
<1>8. CASE UNCHANGED copyVars
  BY <1>2, <1>8 DEF copyVars, copies
<1>9. QED
  BY <1>4, <1>5, <1>6, <1>7, <1>8 DEF CopyNext

\* Every variable of the read side stays in its type.
THEOREM ReadTypeCorrect == Spec => []TypeOK
<1>1. WindowsTypeOK /\ PublicTypeOK /\ CopyTypeOK /\ ListingTypeOK => TypeOK
  BY DEF TypeOK
<1>2. CopyInit => CopyTypeOK
  BY DEF CopyInit, CopyTypeOK, Missing
<1>3. ListInvariant => ListingTypeOK
  BY DEF ListInvariant
<1>4. QED
  BY <1>1, <1>2, <1>3, PartsBehave, WindowsTypeCorrect, PublicTypeCorrect, CopyTypes,
     ListingInvariance, PTL DEF CopySpec
===============================================================================
