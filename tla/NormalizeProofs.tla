--------------------------- MODULE NormalizeProofs ---------------------------
(***************************************************************************)
(* Proofs about Normalize: every call becomes an event that the store      *)
(* accepts, and nothing is cut off but what the limits demand, for texts   *)
(* of every length and all limits.                                         *)
(***************************************************************************)
EXTENDS Normalize, SequenceTheorems, WellFoundedInduction, TLAPS

-----------------------------------------------------------------------------
(* Induction, and what it takes to define a function by recursion.  Both   *)
(* are stated with sets in the place of predicates, which is the form that *)
(* the provers can apply.                                                  *)

(* A set that holds 0 and with each number the next holds all of them.     *)
LEMMA Induction ==
    ASSUME NEW S, 0 \in S, \A n \in Nat : n \in S => n + 1 \in S
    PROVE  Nat \subseteq S
  <1>1. PICK R : /\ IsWellFoundedOn(R, Nat)
                 /\ \A x, y \in Nat : x < y => <<x, y>> \in R
    <2>1. \A x, y \in Nat : x < y => <<x, y>> \in OpToRel(<, Nat)
      BY DEF OpToRel
    <2> QED BY <2>1, NatLessThanWellFounded
  <1>2. SUFFICES ASSUME Nat \ S # {} PROVE FALSE
    OBVIOUS
  <1>3. PICK x \in Nat \ S : \A y \in Nat \ S : ~(<<y, x>> \in R)
    <2>1. \A T : T \subseteq Nat /\ T # {} => \E m \in T : \A y \in T : ~(<<y, m>> \in R)
      <3> SUFFICES ASSUME NEW T, T \subseteq Nat, T # {}
                   PROVE  \E m \in T : \A y \in T : ~(<<y, m>> \in R)
        OBVIOUS
      <3>1. IsWellFoundedOn(R, Nat)
        BY <1>1
      <3> QED BY <3>1, WFMin
    <2> QED BY <2>1, <1>2
  <1>4. x - 1 \in Nat \ S /\ x - 1 < x
    BY <1>3
  <1> QED BY <1>1, <1>3, <1>4

(* The same up to a bound.                                                 *)
LEMMA BoundedInduction ==
    ASSUME NEW N \in Nat, NEW S, 0 \in S, \A n \in 1..N : n - 1 \in S => n \in S
    PROVE  0..N \subseteq S
  <1> DEFINE T == {n \in Nat : n <= N => n \in S}
  <1>1. 0 \in T
    OBVIOUS
  <1>2. ASSUME NEW n \in Nat, n \in T PROVE n + 1 \in T
    BY <1>2
  <1> HIDE DEF T
  <1>3. Nat \subseteq T
    BY <1>1, <1>2, Induction
  <1> QED BY <1>3 DEF T

(* Steps h from a value a on can be followed up to any length.             *)
LEMMA Recursion ==
    ASSUME NEW a \in Nat, NEW N \in Nat, NEW h \in [1..N -> [Nat -> Nat]]
    PROVE  \E f \in [0..N -> Nat] : f[0] = a /\ \A i \in 1..N : f[i] = h[i][f[i - 1]]
  <1> DEFINE Follows(f, n) == f[0] = a /\ \A i \in 1..n : f[i] = h[i][f[i - 1]]
             S == {n \in 0..N : \E f \in [0..n -> Nat] : Follows(f, n)}
  <1>1. 0 \in S
    <2>1. [i \in 0..0 |-> a] \in [0..0 -> Nat] /\ Follows([i \in 0..0 |-> a], 0)
      OBVIOUS
    <2>2. \E f \in [0..0 -> Nat] : Follows(f, 0)
      BY <2>1
    <2> HIDE DEF Follows
    <2> QED BY <2>2
  <1>2. ASSUME NEW n \in 1..N, n - 1 \in S PROVE n \in S
    <2>1. PICK f \in [0..(n - 1) -> Nat] : Follows(f, n - 1)
      BY <1>2
    <2> DEFINE value == h[n][f[n - 1]]
               g == [i \in 0..n |-> IF i = n THEN value ELSE f[i]]
    <2>2. /\ n \in Nat \ {0} /\ n \in 0..N /\ n \in 0..n /\ 0 \in 0..n /\ 0 # n
          /\ n - 1 \in 0..(n - 1) /\ n - 1 \in 0..n /\ n - 1 # n
      OBVIOUS
    <2>3. value \in Nat
      <3>1. h[n] \in [Nat -> Nat] /\ f[n - 1] \in Nat
        BY <2>2
      <3> QED BY <3>1
    <2> HIDE DEF value
    <2>4. \A i \in 0..n : i # n => i \in 0..(n - 1)
      BY <2>2
    <2>5. \A i \in 1..(n - 1) : i \in 0..n /\ i - 1 \in 0..n /\ i # n /\ i - 1 # n
      BY <2>2
    <2>6. g \in [0..n -> Nat]
      BY <2>3, <2>4
    <2>7. /\ g[n] = value /\ g[0] = f[0] /\ g[n - 1] = f[n - 1]
          /\ \A i \in 1..(n - 1) : g[i] = f[i] /\ g[i - 1] = f[i - 1]
      BY <2>2, <2>5
    <2> HIDE DEF g
    <2>8. Follows(g, n)
      <3>1. \A i \in 1..n : i # n => i \in 1..(n - 1)
        BY <2>2
      <3> QED BY <2>1, <2>7, <3>1 DEF value
    <2>9. \E e \in [0..n -> Nat] : Follows(e, n)
      BY <2>6, <2>8
    <2> HIDE DEF Follows
    <2> QED BY <2>2, <2>9
  <1> HIDE DEF S
  <1>3. 0..N \subseteq S
    BY <1>1, <1>2, BoundedInduction
  <1>4. N \in S
    BY <1>3
  <1> QED BY <1>4 DEF S

-----------------------------------------------------------------------------
(* The bytes of a text.                                                    *)

(* The offsets are the sums that they are defined to be.                   *)
LEMMA OffsetsAre ==
    ASSUME NEW text \in Text
    PROVE  /\ Offsets(text) \in [0..Len(text) -> Nat]
           /\ Offsets(text)[0] = 0
           /\ \A n \in 1..Len(text) : Offsets(text)[n] = Offsets(text)[n - 1] + text[n]
  <1> DEFINE N == Len(text)
             Sums(f) == f = [n \in 0..N |-> IF n = 0 THEN 0 ELSE f[n - 1] + text[n]]
  <1>1. N \in Nat /\ \A n \in 1..N : text[n] \in 1..4
    BY DEF Text
  <1>2. \E f : Sums(f)
    <2> DEFINE h == [n \in 1..N |-> [x \in Nat |-> x + text[n]]]
    <2>1. h \in [1..N -> [Nat -> Nat]]
      BY <1>1
    <2> HIDE DEF h
    <2>2. PICK f \in [0..N -> Nat] : f[0] = 0 /\ \A i \in 1..N : f[i] = h[i][f[i - 1]]
      <3>1. N \in Nat /\ 0 \in Nat
        BY <1>1
      <3> HIDE DEF N
      <3> QED BY <2>1, <3>1, Recursion
    <2>3. ASSUME NEW i \in 1..N PROVE f[i] = f[i - 1] + text[i]
      <3>1. i - 1 \in 0..N /\ f[i - 1] \in Nat
        BY <1>1
      <3>2. h[i][f[i - 1]] = f[i - 1] + text[i]
        BY <3>1 DEF h
      <3> QED BY <2>2, <3>2
    <2>4. Sums(f)
      BY <1>1, <2>2, <2>3
    <2> QED BY <2>4
  <1> DEFINE f == Offsets(text)
  <1>3. Sums(f)
    BY <1>2 DEF Offsets
  <1> HIDE DEF f
  <1>4. f[0] = 0 /\ \A n \in 1..N : f[n] = f[n - 1] + text[n]
    BY <1>1, <1>3
  <1>5. f \in [0..N -> Nat]
    <2> DEFINE S == {n \in 0..N : f[n] \in Nat}
    <2>1. 0 \in S /\ \A n \in 1..N : n - 1 \in S => n \in S
      <3>1. \A n \in 1..N : n \in 0..N /\ (f[n - 1] \in Nat => f[n] \in Nat)
        BY <1>1, <1>4
      <3>2. 0 \in 0..N /\ f[0] \in Nat
        BY <1>1, <1>4
      <3> QED BY <3>1, <3>2
    <2> HIDE DEF S
    <2>2. 0..N \subseteq S
      BY <1>1, <2>1, BoundedInduction
    <2> QED BY <1>3, <2>2 DEF S
  <1> QED BY <1>4, <1>5 DEF f

(* A longer prefix takes more bytes.                                       *)
LEMMA OffsetsIncrease ==
    ASSUME NEW text \in Text, NEW m \in 0..Len(text), NEW n \in 0..Len(text), m < n
    PROVE  Offsets(text)[m] < Offsets(text)[n]
  <1> DEFINE N == Len(text)
             f == Offsets(text)
             S == {k \in 0..N : \A j \in 0..N : j < k => f[j] < f[k]}
  <1>1. N \in Nat /\ \A k \in 1..N : text[k] \in 1..4
    BY DEF Text
  <1>2. f \in [0..N -> Nat] /\ \A k \in 1..N : f[k] = f[k - 1] + text[k]
    BY OffsetsAre
  <1> HIDE DEF f, N
  <1>3. 0 \in S
    BY <1>1
  <1>4. ASSUME NEW k \in 1..N, k - 1 \in S PROVE k \in S
    <2>1. k \in 0..N /\ k - 1 \in 0..N
      BY <1>1
    <2>2. f[k - 1] \in Nat /\ f[k] \in Nat /\ text[k] \in 1..4 /\ f[k] = f[k - 1] + text[k]
      BY <1>1, <1>2, <2>1
    <2>3. f[k - 1] < f[k]
      BY <2>2
    <2>4. ASSUME NEW j \in 0..N, j < k PROVE f[j] < f[k]
      <3>1. j = k - 1 \/ j < k - 1
        BY <2>4, <1>1
      <3>2. f[j] \in Nat
        BY <1>2
      <3>3. j < k - 1 => f[j] < f[k - 1]
        BY <1>4
      <3> QED BY <2>2, <2>3, <3>1, <3>2, <3>3
    <2> QED BY <2>1, <2>4
  <1> HIDE DEF S
  <1>5. 0..N \subseteq S
    BY <1>1, <1>3, <1>4, BoundedInduction
  <1>6. n \in S
    BY <1>5 DEF N
  <1> QED BY <1>6 DEF S, f, N

(* A prefix is a text, and takes the bytes up to the offset it ends at.    *)
LEMMA OffsetsOfPrefix ==
    ASSUME NEW text \in Text, NEW n \in 0..Len(text)
    PROVE  /\ Prefix(text, n) \in Text
           /\ Len(Prefix(text, n)) = n
           /\ Bytes(Prefix(text, n)) = Offsets(text)[n]
  <1> DEFINE N == Len(text)
             p == Prefix(text, n)
             f == Offsets(text)
             g == Offsets(p)
             S == {k \in 0..n : g[k] = f[k]}
  <1>1. N \in Nat /\ n \in Nat /\ \A k \in 1..N : text[k] \in 1..4
    BY DEF Text
  <1>2. /\ p = [k \in 1..n |-> text[k]]
        /\ p \in Text /\ Len(p) = n
    <2>1. p = [k \in 1..n |-> text[k]]
      BY DEF Prefix, Text
    <2>2. \A k \in 1..n : k \in 1..N
      BY <1>1
    <2>3. p \in [1..n -> 1..4]
      BY <1>1, <2>1, <2>2
    <2> HIDE DEF p
    <2> QED BY <1>1, <2>1, <2>3 DEF Text
  <1>3. f[0] = 0 /\ \A k \in 1..N : f[k] = f[k - 1] + text[k]
    BY OffsetsAre
  <1> HIDE DEF p
  <1>4. g[0] = 0 /\ \A k \in 1..n : g[k] = g[k - 1] + p[k]
    BY <1>2, OffsetsAre
  <1> HIDE DEF f, g
  <1>5. 0 \in S
    BY <1>1, <1>3, <1>4
  <1>6. ASSUME NEW k \in 1..n, k - 1 \in S PROVE k \in S
    <2>1. k \in 0..n /\ k \in 1..N
      BY <1>1
    <2>2. p[k] = text[k]
      BY <1>2
    <2> QED BY <1>3, <1>4, <1>6, <2>1, <2>2
  <1> HIDE DEF S
  <1>7. 0..n \subseteq S
    BY <1>1, <1>5, <1>6, BoundedInduction
  <1>8. n \in S
    BY <1>1, <1>7
  <1> QED BY <1>2, <1>8 DEF S, Bytes, p, f, g

(* Going back one byte at a time from the limit, truncate_utf8 stops at the*)
(* last boundary that does not exceed it.                                  *)
LEMMA LastBoundaryIs ==
    ASSUME NEW text \in Text, NEW limit \in Nat
    PROVE  LET last == LastBoundary(text, limit)
           IN  /\ last \in Boundaries(text) /\ last <= limit
               /\ \A b \in Boundaries(text) : b <= limit => b <= last
  <1> DEFINE B == Boundaries(text)
             Back(f) == f = [end \in 0..limit |-> IF end \in B THEN end ELSE f[end - 1]]
  <1>1. 0 \in B /\ B \subseteq Nat
    <2>1. 0 \in 0..Len(text)
      BY DEF Text
    <2> QED BY <2>1, OffsetsAre DEF Boundaries
  <1> HIDE DEF B
  <1>2. \E f : Back(f)
    <2> DEFINE h == [n \in 1..limit |-> [x \in Nat |-> IF n \in B THEN n ELSE x]]
    <2>1. h \in [1..limit -> [Nat -> Nat]] /\ 0 \in Nat
      OBVIOUS
    <2> HIDE DEF h
    <2>2. PICK f \in [0..limit -> Nat] : f[0] = 0 /\ \A i \in 1..limit : f[i] = h[i][f[i - 1]]
      BY <2>1, Recursion
    <2>3. ASSUME NEW i \in 1..limit PROVE f[i] = IF i \in B THEN i ELSE f[i - 1]
      <3>1. i - 1 \in 0..limit /\ f[i - 1] \in Nat
        OBVIOUS
      <3> QED BY <2>2, <3>1 DEF h
    <2>4. \A i \in 0..limit : i # 0 => i \in 1..limit
      OBVIOUS
    <2>5. Back(f)
      BY <1>1, <2>2, <2>3, <2>4
    <2> QED BY <2>5
  <1>3. PICK back : Back(back) /\ LastBoundary(text, limit) = back[limit]
    <2> DEFINE back == CHOOSE f : Back(f)
    <2>1. Back(back)
      BY <1>2
    <2>2. LastBoundary(text, limit) = back[limit]
      BY DEF LastBoundary, B
    <2> QED BY <2>1, <2>2
  <1> DEFINE S == {n \in 0..limit : /\ back[n] \in B /\ back[n] <= n
                                    /\ \A b \in B : b <= n => b <= back[n]}
  <1>4. 0 \in S
    <2>1. 0 \in 0..limit /\ back[0] = 0
      BY <1>1, <1>3
    <2> QED BY <1>1, <2>1
  <1>5. ASSUME NEW n \in 1..limit, n - 1 \in S PROVE n \in S
    <2>1. n \in 0..limit /\ back[n] = IF n \in B THEN n ELSE back[n - 1]
      BY <1>3
    <2>2. /\ back[n - 1] \in B /\ back[n - 1] \in Nat /\ back[n - 1] <= n - 1
          /\ \A b \in B : b <= n - 1 => b <= back[n - 1]
      BY <1>1, <1>5
    <2>3. CASE n \in B
      BY <1>1, <2>1, <2>3
    <2>4. CASE n \notin B
      <3>1. back[n] = back[n - 1]
        BY <2>1, <2>4
      <3>2. \A b \in B : b <= n => b <= n - 1
        BY <1>1, <2>4
      <3> QED BY <2>1, <2>2, <3>1, <3>2
    <2> QED BY <2>3, <2>4
  <1> HIDE DEF S
  <1>6. 0..limit \subseteq S
    BY <1>4, <1>5, BoundedInduction
  <1>7. limit \in S
    BY <1>6
  <1> QED BY <1>3, <1>7 DEF S, B

-----------------------------------------------------------------------------
(* Truncation.                                                             *)

(* A truncated text is the longest run of whole characters that the limit  *)
(* allows, and a text that had a character keeps one.                      *)
LEMMA TruncateIs ==
    ASSUME NEW text \in Text, NEW limit \in Nat
    PROVE  /\ Truncate(text, limit) \in Text
           /\ Bytes(Truncate(text, limit)) <= limit
           /\ IsLongestPrefix(Truncate(text, limit), text, limit)
           /\ text # <<>> /\ limit >= 4 => Truncate(text, limit) # <<>>
  <1> DEFINE N == Len(text)
             short == Truncate(text, limit)
  <1>1. N \in Nat /\ N \in 0..N
    BY DEF Text
  <1>2. CASE Bytes(text) <= limit
    <2>1. short = text
      BY <1>2 DEF Truncate
    <2>2. text = Prefix(text, N)
      BY DEF Prefix, Text
    <2>3. IsLongestPrefix(short, text, limit)
      BY <1>1, <1>2, <2>1, <2>2 DEF IsLongestPrefix
    <2> QED BY <1>2, <2>1, <2>3
  <1>3. CASE ~(Bytes(text) <= limit)
    <2> DEFINE last == LastBoundary(text, limit)
    <2>1. /\ last \in Boundaries(text) /\ last <= limit
          /\ \A b \in Boundaries(text) : b <= limit => b <= last
      BY LastBoundaryIs
    <2>2. PICK n \in 0..N : short = Prefix(text, n) /\ Offsets(text)[n] = last
      <3> DEFINE n == CHOOSE n \in 0..N : Offsets(text)[n] = last
      <3>1. n \in 0..N /\ Offsets(text)[n] = last
        BY <2>1 DEF Boundaries
      <3>2. short = Prefix(text, n)
        BY <1>3 DEF Truncate
      <3> QED BY <3>1, <3>2
    <2> HIDE DEF short, last
    <2>3. short \in Text /\ Len(short) = n /\ Bytes(short) = last
      BY <2>2, OffsetsOfPrefix
    <2>4. ASSUME n < N PROVE Offsets(text)[n + 1] > limit
      <3>1. n + 1 \in 0..N
        BY <1>1, <2>4
      <3>2. Offsets(text)[n + 1] \in Boundaries(text)
        BY <3>1 DEF Boundaries
      <3>3. last < Offsets(text)[n + 1] /\ last \in Nat /\ Offsets(text)[n + 1] \in Nat
        BY <2>2, <3>1, OffsetsAre, OffsetsIncrease
      <3> QED BY <2>1, <3>2, <3>3
    <2>5. IsLongestPrefix(short, text, limit)
      <3>1. n < N => n + 1 \in 0..N
        BY <1>1
      <3>2. n < N => Bytes(Prefix(text, n + 1)) > limit
        BY <2>4, <3>1, OffsetsOfPrefix
      <3> QED BY <2>1, <2>2, <2>3, <3>2 DEF IsLongestPrefix
    <2>6. ASSUME text # <<>>, limit >= 4 PROVE short # <<>>
      <3>1. N # 0
        BY <2>6, EmptySeq DEF Text
      <3>2. 1 \in 1..N /\ text[1] \in 1..4
        BY <1>1, <3>1 DEF Text
      <3>3. Offsets(text)[1] = text[1]
        BY <3>2, OffsetsAre
      <3>4. n # 0
        BY <1>1, <2>4, <2>6, <3>1, <3>2, <3>3
      <3> QED BY <2>3, <3>4
    <2> QED BY <2>1, <2>3, <2>5, <2>6 DEF short
  <1> QED BY <1>2, <1>3

-----------------------------------------------------------------------------
(* What a call becomes.                                                    *)

(* The fields of a call, and what is taken for its source and its title.   *)
LEMMA Fields ==
    ASSUME NEW c \in NotifyCall
    PROVE  /\ Source(c) \in ({c.entry, c.app, FallbackSource} \ {Missing}) \cap Text
           /\ Title(c) \in {c.summary, c.app, FallbackTitle} \cap Text
           /\ Source(c) # <<>> /\ Title(c) # <<>>
           /\ c.body \in Text /\ c.actions \in Seq(Text)
           /\ Urgency(c) \in 0..2
  <1>1. /\ c.app \in Text /\ c.summary \in Text /\ c.body \in Text
        /\ c.entry \in Text \cup {Missing} /\ c.actions \in Seq(Text)
    BY DEF NotifyCall
  <1>2. Missing \notin Text /\ {FallbackSource, FallbackTitle} \subseteq Text \ {<<>>}
    BY NormalizeAssumption
  <1>3. Source(c) \in ({c.entry, c.app, FallbackSource} \ {Missing}) \cap Text /\ Source(c) # <<>>
    BY <1>1, <1>2 DEF Source
  <1>4. Title(c) \in {c.summary, c.app, FallbackTitle} \cap Text /\ Title(c) # <<>>
    BY <1>1, <1>2 DEF Title
  <1>5. Urgency(c) \in 0..2
    BY DEF Urgency
  <1> QED BY <1>1, <1>3, <1>4, <1>5

(* The event store takes what a call becomes.                              *)
LEMMA CallIsPublishable ==
    ASSUME NEW c \in NotifyCall
    PROVE  PublishAccepts(Normalized(c))
  <1> DEFINE n == Normalized(c)
  <1>1. /\ MaxSource \in Nat /\ MaxTitle \in Nat /\ MaxBody \in Nat
        /\ MaxSource >= 4 /\ MaxTitle >= 4
    BY NormalizeAssumption
  <1>2. /\ n.source = Truncate(Source(c), MaxSource)
        /\ n.title = Truncate(Title(c), MaxTitle)
        /\ n.body = Truncate(c.body, MaxBody)
        /\ n.urgency = Urgency(c)
    BY DEF Normalized
  <1> HIDE DEF n
  <1>3. Required(n.source, MaxSource)
    BY <1>1, <1>2, Fields, TruncateIs DEF Required
  <1>4. Required(n.title, MaxTitle)
    BY <1>1, <1>2, Fields, TruncateIs DEF Required
  <1>5. Optional(n.body, MaxBody)
    BY <1>1, <1>2, Fields, TruncateIs DEF Optional
  <1>6. n.urgency <= 2
    BY <1>2, Fields
  <1> QED BY <1>3, <1>4, <1>5, <1>6 DEF PublishAccepts, n

(* The key of pair i is parameter 2i - 1 of the actions, and its label the *)
(* one after it.                                                           *)
LEMMA ActionsAre ==
    ASSUME NEW actions \in Seq(Text)
    PROVE  LET parsed == ParseActions(actions)
           IN  /\ DOMAIN parsed = {i \in Nat \ {0} : i <= MaxActions /\ 2 * i <= Len(actions)}
               /\ \A i \in DOMAIN parsed :
                     /\ 2 * i \in 1..Len(actions) /\ 2 * i - 1 \in 1..Len(actions)
                     /\ parsed[i].key = Truncate(actions[2 * i - 1], MaxKey)
                     /\ parsed[i].label = Truncate(actions[2 * i], MaxLabel)
  <1> DEFINE pairs == Pairs(actions)
             half == Len(actions) \div 2
             n == IF Len(pairs) < MaxActions THEN Len(pairs) ELSE MaxActions
             parsed == ParseActions(actions)
  <1>1. Len(actions) \in Nat /\ MaxActions \in Nat
    BY NormalizeAssumption
  <1>2. half \in Nat /\ \A i \in Nat : i <= half <=> 2 * i <= Len(actions)
    BY <1>1
  <1> HIDE DEF half
  <1>3. pairs = [i \in 1..half |-> <<actions[2 * i - 1], actions[2 * i]>>] /\ Len(pairs) = half
    BY <1>2 DEF Pairs, half
  <1>4. n \in Nat /\ \A i \in Nat : i <= n <=> i <= MaxActions /\ 2 * i <= Len(actions)
    BY <1>1, <1>2, <1>3
  <1>5. parsed = [i \in 1..n |-> [key |-> Truncate(pairs[i][1], MaxKey),
                                  label |-> Truncate(pairs[i][2], MaxLabel)]]
    BY DEF ParseActions
  <1> HIDE DEF pairs, n, parsed
  <1>6. DOMAIN parsed = 1..n
    BY <1>5
  <1>7. 1..n = {i \in Nat \ {0} : i <= MaxActions /\ 2 * i <= Len(actions)}
    BY <1>4
  <1>8. ASSUME NEW i \in 1..n
        PROVE  /\ 2 * i \in 1..Len(actions) /\ 2 * i - 1 \in 1..Len(actions)
               /\ parsed[i].key = Truncate(actions[2 * i - 1], MaxKey)
               /\ parsed[i].label = Truncate(actions[2 * i], MaxLabel)
    <2>1. i \in Nat \ {0} /\ 2 * i <= Len(actions) /\ i \in 1..half
      BY <1>2, <1>4
    <2>2. pairs[i] = <<actions[2 * i - 1], actions[2 * i]>>
      BY <1>3, <2>1
    <2>3. 2 * i \in 1..Len(actions) /\ 2 * i - 1 \in 1..Len(actions)
      BY <1>1, <2>1
    <2> QED BY <1>5, <2>2, <2>3
  <1> QED BY <1>6, <1>7, <1>8 DEF parsed

(* The pairs that are kept are the first ones up to the limit, a last key  *)
(* without a label left out.                                               *)
LEMMA CallIsCutOnlyAsMust ==
    ASSUME NEW c \in NotifyCall, call = c, input = Normalized(c)
    PROVE  TruncatesOnlyWhatMust
  <1>1. /\ MaxSource \in Nat /\ MaxTitle \in Nat /\ MaxBody \in Nat
        /\ MaxKey \in Nat /\ MaxLabel \in Nat /\ MaxActions \in Nat
    BY NormalizeAssumption
  <1>2. /\ input.source = Truncate(Source(c), MaxSource)
        /\ input.title = Truncate(Title(c), MaxTitle)
        /\ input.body = Truncate(c.body, MaxBody)
        /\ input.actions = ParseActions(c.actions)
    BY DEF Normalized
  <1>3. \E t \in {c.entry, c.app, FallbackSource} \ {Missing} :
           IsLongestPrefix(input.source, t, MaxSource)
    BY <1>1, <1>2, Fields, TruncateIs
  <1>4. \E t \in {c.summary, c.app, FallbackTitle} : IsLongestPrefix(input.title, t, MaxTitle)
    BY <1>1, <1>2, Fields, TruncateIs
  <1>5. IsLongestPrefix(input.body, c.body, MaxBody)
    BY <1>1, <1>2, Fields, TruncateIs
  <1> DEFINE parsed == input.actions
             N == Len(c.actions)
  <1>6. /\ N \in Nat /\ DOMAIN c.actions = 1..N
        /\ \A p \in 1..N : c.actions[p] \in Text
    BY Fields, LenProperties
  <1>7. /\ DOMAIN parsed = {i \in Nat \ {0} : i <= MaxActions /\ 2 * i <= N}
        /\ \A i \in DOMAIN parsed :
              /\ 2 * i \in 1..N /\ 2 * i - 1 \in 1..N
              /\ parsed[i].key = Truncate(c.actions[2 * i - 1], MaxKey)
              /\ parsed[i].label = Truncate(c.actions[2 * i], MaxLabel)
    BY <1>2, Fields, ActionsAre
  <1> HIDE DEF parsed, N
  <1>8. ASSUME NEW i \in DOMAIN parsed
        PROVE  /\ IsLongestPrefix(parsed[i].key, c.actions[2 * i - 1], MaxKey)
               /\ IsLongestPrefix(parsed[i].label, c.actions[2 * i], MaxLabel)
    BY <1>1, <1>6, <1>7, TruncateIs
  <1>9. DOMAIN parsed = {i \in 1..MaxActions : 2 * i <= N}
    BY <1>1, <1>7
  <1> QED BY <1>3, <1>4, <1>5, <1>8, <1>9 DEF TruncatesOnlyWhatMust, parsed, N

-----------------------------------------------------------------------------
(* What is shown of a call is always there.                                *)
NormalizeInv ==
    call # Missing => call \in NotifyCall /\ input = Normalized(call)

(* NotificationInput::new is applied to each call.                         *)
LEMMA NormalizeInvariant == NormalizeSpec => []NormalizeInv
  <1>1. NormalizeInit => NormalizeInv
    BY DEF NormalizeInit, NormalizeInv
  <1>2. NormalizeInv /\ [NotifyInput]_normalizeVars => NormalizeInv'
    BY NormalizeAssumption DEF NormalizeInv, NotifyInput, normalizeVars
  <1> QED BY <1>1, <1>2, PTL DEF NormalizeSpec

(* The event store accepts every call that was normalized: publish_with    *)
(* cannot fail for the fields of a notification, however long they are.    *)
THEOREM EveryCallIsPublishable == NormalizeSpec => []NormalizedIsPublishable
  <1>1. NormalizeInv => NormalizedIsPublishable
    BY CallIsPublishable DEF NormalizeInv, NormalizedIsPublishable
  <1> QED BY <1>1, NormalizeInvariant, PTL

(* truncate_utf8 and parse_actions keep the longest run of whole characters*)
(* of each text and every pair up to the limit, for texts of every length  *)
(* and all limits.                                                         *)
THEOREM OnlyWhatMustIsCut == NormalizeSpec => []TruncatesOnlyWhatMust
  <1>1. NormalizeInv => TruncatesOnlyWhatMust
    <2>1. ASSUME call = Missing PROVE TruncatesOnlyWhatMust
      BY <2>1 DEF TruncatesOnlyWhatMust
    <2> QED BY <2>1, CallIsCutOnlyAsMust DEF NormalizeInv
  <1> QED BY <1>1, NormalizeInvariant, PTL
==============================================================================
