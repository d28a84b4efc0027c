--------------------------- MODULE FramingProofs ---------------------------
(***************************************************************************)
(* Proofs about the frames: for every limit, every size of the reads and   *)
(* every stream of bytes, split in any way.                                *)
(***************************************************************************)
EXTENDS Framing, SequenceTheorems, TLAPS

USE FramingAssumption

-----------------------------------------------------------------------------
(* Lines of a sequence of bytes, by the positions before and at their ends.*)
IsLine(s, b, e) ==
    /\ b < e /\ s[e] = Newline
    /\ \A q \in (b + 1)..(e - 1) : s[q] # Newline

GoodLine(s, b, e) ==
    /\ e - b - 1 <= MaxFrame
    /\ SubSeq(s, b + 1, e - 1) \in Accepted

\* Where line i of those that end at h starts.
Start(h, i) == IF i = 1 THEN 0 ELSE h[i - 1]

\* The lines that end at h are those of s up to n, where the last one ends,
\* and all of them are acceptable.
Cuts(s, h, n) ==
    /\ \A i \in 1..Len(h) :
          /\ h[i] \in 1..n
          /\ IsLine(s, Start(h, i), h[i])
          /\ GoodLine(s, Start(h, i), h[i])
    /\ \A i, j \in 1..Len(h) : i < j => h[i] < h[j]
    /\ \A r \in 1..n : s[r] = Newline => \E i \in 1..Len(h) : h[i] = r
    /\ n = IF Len(h) = 0 THEN 0 ELSE h[Len(h)]

Ends(h) == {h[i] : i \in 1..Len(h)}

(* A part of a sequence, seen from a part of it or from a longer one.      *)
LEMMA SameSubSeq ==
    ASSUME NEW s \in Seq(Byte), NEW t \in Seq(Byte), NEW m \in Nat \ {0}, NEW n \in Nat,
           NEW d \in Nat, n <= Len(s), n + d <= Len(t),
           \A i \in m..n : s[i] = t[i + d]
    PROVE  SubSeq(s, m, n) = SubSeq(t, m + d, n + d)
  <1> DEFINE u == SubSeq(s, m, n)
             v == SubSeq(t, m + d, n + d)
  <1>1. /\ \A i \in m..n : s[i] \in Byte
        /\ \A i \in (m + d)..(n + d) : t[i] \in Byte
    BY LenProperties, ElementOfSeq
  <1>2. /\ u \in Seq(Byte) /\ Len(u) = IF m <= n THEN n - m + 1 ELSE 0
        /\ \A i \in 1..(n - m + 1) : u[i] = s[m + i - 1]
    BY <1>1, SubSeqProperties
  <1>3. /\ v \in Seq(Byte) /\ Len(v) = IF m + d <= n + d THEN (n + d) - (m + d) + 1 ELSE 0
        /\ \A i \in 1..((n + d) - (m + d) + 1) : v[i] = t[m + d + i - 1]
    BY <1>1, SubSeqProperties
  <1> HIDE DEF u, v
  <1>4. Len(u) = Len(v)
    BY <1>2, <1>3
  <1>5. ASSUME NEW i \in 1..Len(u) PROVE u[i] = v[i]
    <2>1. i \in 1..(n - m + 1) /\ m + i - 1 \in m..n
      BY <1>2, <1>5
    <2>2. u[i] = s[m + i - 1] /\ v[i] = t[m + i - 1 + d]
      BY <1>2, <1>3, <2>1
    <2> QED BY <2>1, <2>2
  <1>6. u = v
    BY <1>2, <1>3, <1>4, <1>5, SeqEqual
  <1> QED BY <1>6 DEF u, v

(* A line stays the same line when more bytes arrive.                      *)
LEMMA SameLine ==
    ASSUME NEW s \in Seq(Byte), NEW t \in Seq(Byte), NEW b \in Nat, NEW e \in Nat,
           NEW d \in Nat, b < e, e <= Len(s), e + d <= Len(t),
           \A i \in 1..Len(s) : s[i] = t[i + d]
    PROVE  /\ IsLine(s, b, e) <=> IsLine(t, b + d, e + d)
           /\ GoodLine(s, b, e) <=> GoodLine(t, b + d, e + d)
  <1>0. Len(s) \in Nat /\ Len(t) \in Nat
    BY LenProperties
  <1>1. SubSeq(s, b + 1, e - 1) = SubSeq(t, b + d + 1, e + d - 1)
    <2>1. b + 1 \in Nat \ {0} /\ e - 1 \in Nat /\ e - 1 <= Len(s) /\ e - 1 + d <= Len(t)
      BY <1>0
    <2>2. \A i \in (b + 1)..(e - 1) : s[i] = t[i + d]
      BY <1>0
    <2>3. SubSeq(s, b + 1, e - 1) = SubSeq(t, b + 1 + d, e - 1 + d)
      BY <2>1, <2>2, SameSubSeq
    <2>4. b + 1 + d = b + d + 1 /\ e - 1 + d = e + d - 1
      OBVIOUS
    <2> QED BY <2>3, <2>4, Zenon
  <1>2. (e + d) - (b + d) - 1 = e - b - 1
    OBVIOUS
  <1>3. GoodLine(s, b, e) <=> GoodLine(t, b + d, e + d)
    <2>1. e - b - 1 <= MaxFrame <=> (e + d) - (b + d) - 1 <= MaxFrame
      BY <1>2
    <2>2. SubSeq(s, b + 1, e - 1) \in Accepted
            <=> SubSeq(t, b + d + 1, e + d - 1) \in Accepted
      BY <1>1
    <2> QED BY <2>1, <2>2 DEF GoodLine
  <1>4. s[e] = t[e + d]
    BY <1>0
  <1>5. ASSUME \A q \in (b + 1)..(e - 1) : s[q] # Newline,
               NEW q \in (b + d + 1)..(e + d - 1)
        PROVE  t[q] # Newline
    <2>1. q - d \in (b + 1)..(e - 1) /\ q - d \in 1..Len(s) /\ (q - d) + d = q
      BY <1>0
    <2>2. s[q - d] = t[(q - d) + d]
      BY <2>1
    <2> QED BY <1>5, <2>1, <2>2
  <1>6. ASSUME \A q \in (b + d + 1)..(e + d - 1) : t[q] # Newline,
               NEW q \in (b + 1)..(e - 1)
        PROVE  s[q] # Newline
    <2>1. q + d \in (b + d + 1)..(e + d - 1) /\ q \in 1..Len(s)
      BY <1>0
    <2> QED BY <1>6, <2>1
  <1> QED BY <1>3, <1>4, <1>5, <1>6 DEF IsLine

(* Reading more bytes leaves the lines that were handled as they are.      *)
LEMMA CutsMore ==
    ASSUME NEW s \in Seq(Byte), NEW chunk \in Seq(Byte), NEW h \in Seq(Nat \ {0}),
           NEW n \in 0..Len(s), Cuts(s, h, n)
    PROVE  Cuts(s \o chunk, h, n)
  <1> DEFINE t == s \o chunk
  <1>1. /\ t \in Seq(Byte) /\ Len(t) = Len(s) + Len(chunk)
        /\ Len(s) \in Nat /\ Len(chunk) \in Nat /\ Len(h) \in Nat
        /\ \A i \in 1..Len(s) : s[i] = t[i]
    BY ConcatProperties, LenProperties
  <1> HIDE DEF t
  <1>2. ASSUME NEW i \in 1..Len(h)
        PROVE  IsLine(t, Start(h, i), h[i]) /\ GoodLine(t, Start(h, i), h[i])
    <2> DEFINE b == Start(h, i)
               e == h[i]
    <2>1. e \in 1..n /\ IsLine(s, b, e) /\ GoodLine(s, b, e)
      BY DEF Cuts
    <2>2. b \in Nat
      <3>1. CASE i = 1
        BY <3>1 DEF Start
      <3>2. CASE i # 1
        <4>1. i - 1 \in 1..Len(h)
          BY <1>1, <3>2
        <4>2. h[i - 1] \in 1..n
          BY <4>1 DEF Cuts
        <4> QED BY <3>2, <4>2 DEF Start
      <3> QED BY <3>1, <3>2
    <2>3. b < e
      BY <2>1 DEF IsLine
    <2> HIDE DEF b, e
    <2>4. \A k \in 1..Len(s) : s[k] = t[k + 0]
      BY <1>1
    <2>5. e \in Nat /\ e <= Len(s) /\ e + 0 <= Len(t) /\ b + 0 = b /\ e + 0 = e
      BY <1>1, <2>1, <2>2
    <2>6. /\ IsLine(s, b, e) <=> IsLine(t, b + 0, e + 0)
          /\ GoodLine(s, b, e) <=> GoodLine(t, b + 0, e + 0)
      BY <1>1, <2>2, <2>3, <2>4, <2>5, SameLine
    <2>7. IsLine(t, b, e) /\ GoodLine(t, b, e)
      BY <2>1, <2>5, <2>6, Zenon DEF b, e
    <2> QED BY <2>7 DEF b, e
  <1>3. \A r \in 1..n : t[r] = s[r]
    BY <1>1
  <1>4. Cuts(t, h, n)
    BY <1>2, <1>3 DEF Cuts
  <1> QED BY <1>4 DEF t

(* Handling the next line, when it is acceptable.                          *)
LEMMA CutsNext ==
    ASSUME NEW s \in Seq(Byte), NEW h \in Seq(Nat \ {0}),
           NEW n \in 0..Len(s), NEW e \in (n + 1)..Len(s), Cuts(s, h, n),
           IsLine(s, n, e), GoodLine(s, n, e)
    PROVE  Cuts(s, Append(h, e), e)
  <1> DEFINE g == Append(h, e)
             l == Len(h)
  <1>0. Len(s) \in Nat /\ l \in Nat
    BY LenProperties
  <1>1. e \in Nat \ {0}
    BY <1>0
  <1>2. /\ g \in Seq(Nat \ {0}) /\ Len(g) = l + 1
        /\ \A i \in 1..l : g[i] = h[i]
        /\ g[l + 1] = e
    BY <1>1, AppendProperties
  <1>3. n = IF l = 0 THEN 0 ELSE h[l]
    BY DEF Cuts
  <1> HIDE DEF g, l
  <1>4. Start(g, l + 1) = n
    BY <1>0, <1>2, <1>3 DEF Start
  <1>5. \A i \in 1..l : Start(g, i) = Start(h, i)
    BY <1>0, <1>2 DEF Start
  <1>6. ASSUME NEW i \in 1..(l + 1)
        PROVE  /\ g[i] \in 1..e
               /\ IsLine(s, Start(g, i), g[i]) /\ GoodLine(s, Start(g, i), g[i])
    <2>1. CASE i = l + 1
      BY <1>1, <1>2, <1>4, <2>1
    <2>2. CASE i # l + 1
      <3>1. i \in 1..l
        BY <1>0, <2>2
      <3>2. h[i] \in 1..n /\ IsLine(s, Start(h, i), h[i]) /\ GoodLine(s, Start(h, i), h[i])
        BY <3>1 DEF Cuts, l
      <3> QED BY <1>0, <1>2, <1>5, <3>1, <3>2
    <2> QED BY <2>1, <2>2
  <1>7. ASSUME NEW i \in 1..(l + 1), NEW j \in 1..(l + 1), i < j
        PROVE  g[i] < g[j]
    <2>a. i \in 1..l
      BY <1>0, <1>7
    <2>1. i \in 1..l /\ g[i] = h[i] /\ h[i] \in 1..n
      BY <1>2, <2>a DEF Cuts, l
    <2>2. CASE j = l + 1
      BY <1>0, <1>2, <2>1, <2>2
    <2>3. CASE j # l + 1
      <3>1. j \in 1..l /\ g[j] = h[j]
        BY <1>0, <1>2, <2>3
      <3> QED BY <1>7, <2>1, <3>1 DEF Cuts, l
    <2> QED BY <2>2, <2>3
  <1>8. ASSUME NEW r \in 1..e, s[r] = Newline
        PROVE  \E i \in 1..(l + 1) : g[i] = r
    <2>1. CASE r <= n
      <3>1. r \in 1..n
        BY <1>0, <2>1
      <3>2. PICK i \in 1..l : h[i] = r
        BY <1>8, <3>1 DEF Cuts, l
      <3> QED BY <1>0, <1>2, <3>2
    <2>2. CASE ~(r <= n)
      <3>1. r \notin (n + 1)..(e - 1)
        BY <1>8 DEF IsLine
      <3>2. r = e
        BY <1>0, <1>1, <2>2, <3>1
      <3> QED BY <1>0, <1>2, <3>2
    <2> QED BY <2>1, <2>2
  <1>9. l + 1 # 0
    BY <1>0
  <1>10. Cuts(s, g, e)
    BY <1>2, <1>6, <1>7, <1>8, <1>9 DEF Cuts
  <1> QED BY <1>10 DEF g

-----------------------------------------------------------------------------
(* The reference, in terms of lines.                                       *)
LEMMA LineStartIs ==
    ASSUME NEW s \in Seq(Byte), NEW b \in 0..Len(s), b = 0 \/ s[b] = Newline,
           NEW p \in Nat, b < p, p <= Len(s) + 1,
           \A q \in (b + 1)..(p - 1) : s[q] # Newline
    PROVE  LineStart(s, p) = b
  <1> DEFINE IsStart(q) == q < p /\ \A r \in Newlines(s) : r < p => r <= q
  <1>0. Len(s) \in Nat
    BY LenProperties
  <1>1. b \in {0} \cup Newlines(s)
    BY <1>0 DEF Newlines
  <1>2. IsStart(b)
    <2>1. ASSUME NEW r \in Newlines(s), r < p PROVE r <= b
      <3>1. r \in 1..Len(s) /\ s[r] = Newline
        BY DEF Newlines
      <3>2. r \notin (b + 1)..(p - 1)
        BY <3>1
      <3> QED BY <1>0, <2>1, <3>1, <3>2
    <2> QED BY <2>1
  <1>3. ASSUME NEW q \in {0} \cup Newlines(s), IsStart(q) PROVE q = b
    <2>1. q \in Nat /\ b \in Nat
      BY <1>0 DEF Newlines
    <2>2. CASE q \in Newlines(s) /\ b \in Newlines(s)
      BY <1>2, <1>3, <2>1, <2>2
    <2>3. CASE q = 0 /\ b \in Newlines(s)
      BY <1>3, <2>1, <2>3
    <2>4. CASE q \in Newlines(s) /\ b = 0
      BY <1>2, <1>3, <2>1, <2>4 DEF Newlines
    <2> QED BY <1>1, <2>2, <2>3, <2>4
  <1>4. LineStart(s, p) = CHOOSE q \in {0} \cup Newlines(s) : IsStart(q)
    BY DEF LineStart
  <1> HIDE DEF IsStart
  <1> QED BY <1>1, <1>2, <1>3, <1>4

LEMMA LineOKIs ==
    ASSUME NEW s \in Seq(Byte), NEW b \in 0..Len(s), b = 0 \/ s[b] = Newline,
           NEW e \in 1..Len(s), IsLine(s, b, e)
    PROVE  LineOK(s, e) <=> GoodLine(s, b, e)
  <1>1. LineStart(s, e) = b
    <2>1. Len(s) \in Nat
      BY LenProperties
    <2>2. /\ e \in Nat /\ b < e /\ e <= Len(s) + 1
          /\ \A q \in (b + 1)..(e - 1) : s[q] # Newline
      BY <2>1 DEF IsLine
    <2> QED BY <2>2, LineStartIs
  <1> QED BY <1>1 DEF LineOK, GoodLine

(* What was handled are the lines up to n; they are all acceptable.        *)
LEMMA CutsAreOK ==
    ASSUME NEW s \in Seq(Byte), NEW h \in Seq(Nat \ {0}), NEW n \in 0..Len(s), Cuts(s, h, n)
    PROVE  /\ Ends(h) = {r \in Newlines(s) : r <= n}
           /\ \A r \in Ends(h) : LineOK(s, r)
           /\ n = 0 \/ s[n] = Newline
  <1>0. Len(s) \in Nat /\ Len(h) \in Nat
    BY LenProperties
  <1>1. \A i \in 1..Len(h) : h[i] \in 1..n /\ s[h[i]] = Newline
    BY DEF Cuts, IsLine
  <1>2. n = 0 \/ s[n] = Newline
    <2>1. CASE Len(h) = 0
      BY <2>1 DEF Cuts
    <2>2. CASE Len(h) # 0
      <3>1. Len(h) \in 1..Len(h) /\ n = h[Len(h)]
        BY <1>0, <2>2 DEF Cuts
      <3> QED BY <1>1, <3>1
    <2> QED BY <2>1, <2>2
  <1>3. Ends(h) \subseteq {r \in Newlines(s) : r <= n}
    BY <1>0, <1>1 DEF Ends, Newlines
  <1>4. ASSUME NEW r \in Newlines(s), r <= n PROVE r \in Ends(h)
    <2>1. r \in 1..n /\ s[r] = Newline
      BY <1>0, <1>4 DEF Newlines
    <2> QED BY <2>1 DEF Cuts, Ends
  <1>5. ASSUME NEW i \in 1..Len(h) PROVE LineOK(s, h[i])
    <2> DEFINE b == Start(h, i)
    <2>1. IsLine(s, b, h[i]) /\ GoodLine(s, b, h[i]) /\ h[i] \in 1..Len(s)
      BY <1>0, <1>1 DEF Cuts
    <2>2. b \in 0..Len(s) /\ (b = 0 \/ s[b] = Newline)
      <3>1. CASE i = 1
        BY <1>0, <3>1 DEF Start
      <3>2. CASE i # 1
        <4>1. i - 1 \in 1..Len(h) /\ b = h[i - 1]
          BY <1>0, <3>2 DEF Start
        <4> QED BY <1>0, <1>1, <4>1
      <3> QED BY <3>1, <3>2
    <2> HIDE DEF b
    <2> QED BY <2>1, <2>2, LineOKIs
  <1> QED BY <1>2, <1>3, <1>4, <1>5 DEF Ends

(* Every line is handled and the rest has no newline.                      *)
LEMMA AllCut ==
    ASSUME NEW s \in Seq(Byte), NEW h \in Seq(Nat \ {0}), NEW n \in 0..Len(s), Cuts(s, h, n),
           \A q \in (n + 1)..Len(s) : s[q] # Newline
    PROVE  /\ Ends(h) = Acceptable(s)
           /\ Broken(s) <=> Len(s) - n > MaxFrame
  <1>0. Len(s) \in Nat
    BY LenProperties
  <1>1. /\ Ends(h) = {r \in Newlines(s) : r <= n}
        /\ \A r \in Ends(h) : LineOK(s, r)
        /\ n = 0 \/ s[n] = Newline
    BY CutsAreOK
  <1>2. Ends(h) = Newlines(s)
    <2>1. ASSUME NEW r \in Newlines(s) PROVE r <= n
      <3>1. r \in 1..Len(s) /\ s[r] = Newline
        BY DEF Newlines
      <3> QED BY <1>0, <3>1
    <2> QED BY <1>1, <2>1
  <1>3. Acceptable(s) = Newlines(s)
    BY <1>1, <1>2 DEF Acceptable
  <1>4. LineStart(s, Len(s) + 1) = n
    <2>1. /\ Len(s) + 1 \in Nat /\ n < Len(s) + 1 /\ Len(s) + 1 <= Len(s) + 1
          /\ \A q \in (n + 1)..((Len(s) + 1) - 1) : s[q] # Newline
      BY <1>0
    <2> QED BY <1>1, <2>1, LineStartIs
  <1> QED BY <1>2, <1>3, <1>4 DEF Broken

(* The next line is not acceptable.                                        *)
LEMMA BadCut ==
    ASSUME NEW s \in Seq(Byte), NEW h \in Seq(Nat \ {0}), NEW n \in 0..Len(s), Cuts(s, h, n),
           NEW e \in (n + 1)..Len(s), IsLine(s, n, e), ~GoodLine(s, n, e)
    PROVE  Ends(h) = Acceptable(s) /\ Broken(s)
  <1>0. Len(s) \in Nat
    BY LenProperties
  <1>1. /\ Ends(h) = {r \in Newlines(s) : r <= n}
        /\ \A r \in Ends(h) : LineOK(s, r)
        /\ n = 0 \/ s[n] = Newline
    BY CutsAreOK
  <1>2. e \in Newlines(s)
    BY <1>0 DEF Newlines, IsLine
  <1>3. ~LineOK(s, e)
    <2>1. e \in 1..Len(s)
      BY <1>0
    <2> QED BY <1>1, <2>1, LineOKIs
  <1>4. ASSUME NEW r \in Newlines(s), ~(r <= n) PROVE e <= r
    <2>1. r \in 1..Len(s) /\ s[r] = Newline
      BY DEF Newlines
    <2>2. r \notin (n + 1)..(e - 1)
      BY <2>1 DEF IsLine
    <2> QED BY <1>0, <1>4, <2>1, <2>2
  <1>5. Acceptable(s) \subseteq Ends(h)
    BY <1>1, <1>2, <1>3, <1>4 DEF Acceptable
  <1>6. Ends(h) \subseteq Acceptable(s)
    <2>1. ASSUME NEW r \in Ends(h), NEW q \in Newlines(s), q <= r PROVE LineOK(s, q)
      <3>1. r \in Newlines(s) /\ r <= n
        BY <1>1
      <3>2. q <= n
        BY <1>0, <2>1, <3>1 DEF Newlines
      <3> QED BY <1>1, <3>2
    <2> QED BY <1>1, <2>1 DEF Acceptable
  <1>7. e \notin Acceptable(s)
    BY <1>2, <1>3 DEF Acceptable
  <1> QED BY <1>2, <1>5, <1>6, <1>7 DEF Broken

-----------------------------------------------------------------------------
(* The session.  What is pending is what arrived after the last frame that *)
(* was handled, and nothing but lines that are acceptable came before; at  *)
(* rest, nothing that is pending can be cut or is too long.                *)
Done == Len(arrived) - Len(pending)

Refused(p) == ~Fits(p - 1) \/ Payload(p) \notin Accepted

AtRest ==
    /\ stage \in {"read", "eof"} => NoNewline(pending) /\ Fits(Len(pending))
    /\ stage = "ended" =>
          \/ NoNewline(pending) /\ ~Fits(Len(pending))
          \/ \E p \in 1..Len(pending) : FirstNewline(pending, p) /\ Refused(p)

FramingInv ==
    /\ FramingTypeOK
    /\ Done \in 0..Len(arrived)
    /\ \A p \in 1..Len(pending) : pending[p] = arrived[p + Done]
    /\ Cuts(arrived, handled, Done)
    /\ AtRest
    /\ Len(pending) <= MaxFrame + MaxRead

(* A line in what is pending is a line of what arrived.                    *)
LEMMA PendingLine ==
    ASSUME FramingInv, NEW p \in 1..Len(pending), FirstNewline(pending, p)
    PROVE  /\ p + Done \in (Done + 1)..Len(arrived)
           /\ IsLine(arrived, Done, p + Done)
           /\ GoodLine(arrived, Done, p + Done) <=> ~Refused(p)
  <1> DEFINE n == Done
  <1>1. /\ pending \in Seq(Byte) /\ arrived \in Seq(Byte)
        /\ Len(pending) \in Nat /\ Len(arrived) \in Nat
        /\ n = Len(arrived) - Len(pending) /\ n \in Nat
        /\ \A i \in 1..Len(pending) : pending[i] = arrived[i + n]
    BY LenProperties DEF FramingInv, FramingTypeOK, Done
  <1> HIDE DEF n
  <1>2. /\ 0 \in Nat /\ p \in Nat /\ 0 < p /\ p <= Len(pending) /\ p + n <= Len(arrived)
    BY <1>1
  <1>3. /\ IsLine(pending, 0, p) <=> IsLine(arrived, 0 + n, p + n)
        /\ GoodLine(pending, 0, p) <=> GoodLine(arrived, 0 + n, p + n)
    BY <1>1, <1>2, SameLine
  <1>4. 0 + n = n /\ p - 0 - 1 = p - 1 /\ 0 + 1 = 1 /\ p + n \in (n + 1)..Len(arrived)
    BY <1>1, <1>2
  <1>5. IsLine(pending, 0, p)
    BY <1>2 DEF FirstNewline, IsLine
  <1>6. GoodLine(pending, 0, p) <=> ~Refused(p)
    <2>1. p - 0 - 1 <= MaxFrame <=> Fits(p - 1)
      BY <1>4 DEF Fits
    <2>2. SubSeq(pending, 0 + 1, p - 1) = Payload(p)
      BY <1>4 DEF Payload
    <2> QED BY <2>1, <2>2 DEF GoodLine, Refused
  <1> QED BY <1>3, <1>4, <1>5, <1>6, Zenon DEF n

(* Bytes are read and put behind what is pending.                          *)
LEMMA ReadBytesInv ==
    ASSUME FramingInv, NEW chunk \in Seq(Byte), ReadBytes(chunk)
    PROVE  FramingInv'
  <1>1. /\ pending \in Seq(Byte) /\ arrived \in Seq(Byte) /\ handled \in Seq(Nat \ {0})
        /\ pending' = pending \o chunk /\ arrived' = arrived \o chunk
        /\ handled' = handled /\ stage' = "cut"
        /\ Len(pending) <= MaxFrame /\ Len(chunk) <= MaxRead
    BY DEF FramingInv, FramingTypeOK, AtRest, ReadBytes, Fits
  <1>2. /\ pending' \in Seq(Byte) /\ Len(pending') = Len(pending) + Len(chunk)
        /\ \A i \in 1..(Len(pending) + Len(chunk)) : pending'[i] =
               IF i <= Len(pending) THEN pending[i] ELSE chunk[i - Len(pending)]
    BY <1>1, ConcatProperties
  <1>3. /\ arrived' \in Seq(Byte) /\ Len(arrived') = Len(arrived) + Len(chunk)
        /\ \A i \in 1..(Len(arrived) + Len(chunk)) : arrived'[i] =
               IF i <= Len(arrived) THEN arrived[i] ELSE chunk[i - Len(arrived)]
    BY <1>1, ConcatProperties
  <1>4. Len(pending) \in Nat /\ Len(arrived) \in Nat /\ Len(chunk) \in Nat
    BY <1>1, LenProperties
  <1>5. Done' = Done /\ Done \in 0..Len(arrived) /\ Done = Len(arrived) - Len(pending)
    BY <1>2, <1>3, <1>4 DEF Done, FramingInv
  <1> DEFINE m == Len(pending)
             n == Len(arrived)
             k == Len(chunk)
             d == Done
  <1>a. m \in Nat /\ n \in Nat /\ k \in Nat /\ d = n - m
    BY <1>4, <1>5
  <1>b. /\ \A i \in 1..(m + k) : i <= m => pending'[i] = pending[i]
        /\ \A i \in 1..(m + k) : ~(i <= m) => pending'[i] = chunk[i - m]
    BY <1>2
  <1>c. /\ \A i \in 1..(n + k) : i <= n => arrived'[i] = arrived[i]
        /\ \A i \in 1..(n + k) : ~(i <= n) => arrived'[i] = chunk[i - n]
    BY <1>3
  <1>d. \A i \in 1..m : pending[i] = arrived[i + d]
    BY DEF FramingInv
  <1>e. Len(pending') = m + k
    BY <1>2
  <1> HIDE DEF m, n, k, d
  <1>6. ASSUME NEW i \in 1..(m + k) PROVE pending'[i] = arrived'[i + d]
    <2>1. i \in Int /\ i + d \in Int /\ d \in Int
      BY <1>a, <1>5 DEF d
    <2>2. CASE i <= m
      <3>1. i \in 1..m
        BY <1>a, <2>2
      <3>2. i + d \in 1..(n + k) /\ i + d <= n
        <4>1. d \in Nat
          BY <1>5 DEF d
        <4> QED BY <1>a, <2>2, <4>1
      <3>3. pending'[i] = pending[i] /\ arrived'[i + d] = arrived[i + d]
        BY <1>b, <1>c, <2>2, <3>2
      <3> QED BY <1>d, <3>1, <3>3
    <2>3. CASE ~(i <= m)
      <3>1. i + d \in 1..(n + k) /\ ~(i + d <= n) /\ (i + d) - n = i - m
        BY <1>a, <2>3
      <3>2. pending'[i] = chunk[i - m] /\ arrived'[i + d] = chunk[(i + d) - n]
        BY <1>b, <1>c, <2>3, <3>1
      <3> QED BY <3>1, <3>2
    <2> QED BY <2>2, <2>3
  <1>7. Cuts(arrived', handled', Done')
    BY <1>1, <1>5, CutsMore DEF FramingInv
  <1>8. FramingTypeOK' /\ AtRest'
    BY <1>1, <1>2, <1>3 DEF FramingTypeOK, AtRest
  <1>9. Done' \in 0..Len(arrived') /\ Len(pending') <= MaxFrame + MaxRead
    BY <1>1, <1>2, <1>3, <1>4, <1>5
  <1>f. \A i \in 1..Len(pending') : pending'[i] = arrived'[i + Done']
    BY <1>5, <1>6, <1>e DEF d
  <1> QED BY <1>7, <1>8, <1>9, <1>f DEF FramingInv

(* A frame is cut out and handled.                                         *)
LEMMA CutFrameInv ==
    ASSUME FramingInv, CutFrame
    PROVE  FramingInv'
  <1>1. PICK p \in 1..Len(pending) :
          /\ FirstNewline(pending, p) /\ ~Refused(p)
          /\ pending' = SubSeq(pending, p + 1, Len(pending))
          /\ handled' = Append(handled, Len(arrived) - Len(pending) + p)
    BY DEF CutFrame, Refused
  <1>2. /\ pending \in Seq(Byte) /\ arrived \in Seq(Byte) /\ handled \in Seq(Nat \ {0})
        /\ Len(pending) \in Nat /\ Len(arrived) \in Nat
        /\ Done \in Nat /\ Done = Len(arrived) - Len(pending)
        /\ arrived' = arrived /\ stage' = "cut"
    BY LenProperties DEF FramingInv, FramingTypeOK, Done, CutFrame
  <1> DEFINE e == p + Done
  <1>3. /\ e \in (Done + 1)..Len(arrived) /\ IsLine(arrived, Done, e)
        /\ GoodLine(arrived, Done, e)
    BY <1>1, PendingLine
  <1>4. handled' = Append(handled, e)
    <2>1. Len(arrived) - Len(pending) + p = e
      BY <1>2
    <2> QED BY <1>1, <2>1
  <1>5. /\ pending' \in Seq(Byte) /\ Len(pending') = Len(pending) - p
        /\ \A i \in 1..(Len(pending) - p) : pending'[i] = pending[p + i]
    <2>1. \A i \in (p + 1)..Len(pending) : pending[i] \in Byte
      BY <1>2, ElementOfSeq
    <2>2. /\ pending' \in Seq(Byte)
          /\ Len(pending') = IF p + 1 <= Len(pending) THEN Len(pending) - (p + 1) + 1 ELSE 0
          /\ \A i \in 1..(Len(pending) - (p + 1) + 1) : pending'[i] = pending[p + 1 + i - 1]
      BY <1>1, <1>2, <2>1, SubSeqProperties
    <2>3. Len(pending') = Len(pending) - p
      BY <1>2, <2>2
    <2>4. ASSUME NEW i \in 1..(Len(pending) - p) PROVE pending'[i] = pending[p + i]
      <3>1. i \in 1..(Len(pending) - (p + 1) + 1) /\ p + 1 + i - 1 = p + i
        BY <1>2
      <3> QED BY <2>2, <3>1
    <2> QED BY <2>2, <2>3, <2>4
  <1>6. Done' = e
    BY <1>2, <1>5 DEF Done
  <1>7. ASSUME NEW i \in 1..Len(pending') PROVE pending'[i] = arrived[i + e]
    <2>1. p + i \in 1..Len(pending) /\ i \in 1..(Len(pending) - p) /\ p + i + Done = i + e
      BY <1>2, <1>5
    <2>2. pending[p + i] = arrived[p + i + Done]
      BY <2>1 DEF FramingInv
    <2> QED BY <1>5, <2>1, <2>2
  <1> HIDE DEF e
  <1>8. Cuts(arrived, handled', e)
    <2>1. Done \in 0..Len(arrived) /\ Cuts(arrived, handled, Done)
      BY DEF FramingInv
    <2> QED BY <1>2, <1>3, <1>4, <2>1, CutsNext
  <1>9. FramingTypeOK' /\ AtRest'
    <2>1. e \in Nat \ {0}
      BY <1>2, <1>3
    <2>2. handled' \in Seq(Nat \ {0})
      BY <1>2, <1>4, <2>1, AppendProperties
    <2> QED BY <1>2, <1>5, <2>2 DEF FramingTypeOK, AtRest
  <1>10. Done' \in 0..Len(arrived') /\ Len(pending') <= MaxFrame + MaxRead
    BY <1>2, <1>3, <1>5, <1>6 DEF FramingInv
  <1> QED BY <1>2, <1>6, <1>7, <1>8, <1>9, <1>10 DEF FramingInv

(* The other steps leave the bytes alone.                                  *)
LEMMA RestInv ==
    ASSUME FramingInv, UNCHANGED <<pending, arrived, handled>>,
           stage' \in {"read", "cut", "ended", "eof"}, AtRest'
    PROVE  FramingInv'
  <1>1. Done' = Done
    BY DEF Done
  <1>2. FramingTypeOK'
    BY DEF FramingInv, FramingTypeOK
  <1> QED BY <1>1, <1>2 DEF FramingInv

LEMMA FramingStep ==
    ASSUME FramingInv, [FramingNext]_framingVars
    PROVE  FramingInv'
  <1>1. ASSUME NEW chunk \in Chunks, ReadBytes(chunk) PROVE FramingInv'
    <2>1. PICK n \in 1..MaxRead : chunk \in [1..n -> Byte]
      BY <1>1 DEF Chunks
    <2>2. chunk \in Seq(Byte)
      BY <2>1
    <2> QED BY <1>1, <2>2, ReadBytesInv
  <1>2. CASE ReadEof
    BY <1>2, RestInv DEF ReadEof, AtRest, FramingInv
  <1>3. CASE CutEnds
    <2>1. AtRest'
      BY <1>3 DEF CutEnds, AtRest, FirstNewline, NoNewline, Refused, Payload
    <2> QED BY <1>3, <2>1, RestInv DEF CutEnds
  <1>4. CASE CutRest
    <2>1. AtRest'
      BY <1>4 DEF CutRest, AtRest, NoNewline
    <2> QED BY <1>4, <2>1, RestInv DEF CutRest
  <1>5. CASE UNCHANGED framingVars
    <2>1. AtRest'
      BY <1>5 DEF framingVars, FramingInv, AtRest, FirstNewline, NoNewline, Refused, Payload
    <2> QED BY <1>5, <2>1, RestInv DEF framingVars, FramingInv, FramingTypeOK
  <1> QED BY <1>1, <1>2, <1>3, <1>4, <1>5, CutFrameInv DEF FramingNext

LEMMA FramingInitial ==
    ASSUME FramingInit
    PROVE  FramingInv
  <1>1. /\ pending = <<>> /\ arrived = <<>> /\ handled = <<>> /\ stage = "read"
        /\ Len(pending) = 0 /\ Len(arrived) = 0 /\ Len(handled) = 0
    BY EmptySeq DEF FramingInit
  <1>2. FramingTypeOK
    BY <1>1, EmptySeq DEF FramingTypeOK
  <1>3. Done = 0
    BY <1>1 DEF Done
  <1>4. Cuts(arrived, handled, 0)
    BY <1>1 DEF Cuts
  <1>5. AtRest
    BY <1>1 DEF AtRest, NoNewline, Fits
  <1> QED BY <1>1, <1>2, <1>3, <1>4, <1>5 DEF FramingInv

(* The inductive invariant of the buffer.                                  *)
THEOREM FramingInvariant == FramingSpec => []FramingInv
  BY FramingInitial, FramingStep, PTL DEF FramingSpec

(* The buffer never holds more than the longest frame and one read.        *)
THEOREM BufferStaysBounded == FramingSpec => []BufferBounded
  <1>1. FramingInv => BufferBounded
    BY DEF FramingInv, AtRest, BufferBounded, Fits
  <1> QED BY <1>1, FramingInvariant, PTL

(* The frames handled are the lines of what arrived, however it was split. *)
THEOREM FramesAreLines == FramingSpec => []CutsByLine
  <1>1. ASSUME FramingInv PROVE CutsByLine
    <2>1. /\ arrived \in Seq(Byte) /\ handled \in Seq(Nat \ {0})
          /\ Done \in 0..Len(arrived) /\ Cuts(arrived, handled, Done)
          /\ Len(arrived) \in Nat /\ Len(pending) \in Nat
          /\ DOMAIN handled = 1..Len(handled)
          /\ Done = Len(arrived) - Len(pending)
          /\ stage \in {"read", "cut", "ended", "eof"}
      BY <1>1, LenProperties DEF FramingInv, FramingTypeOK, Done
    <2>2. \A i, j \in DOMAIN handled : i < j => handled[i] < handled[j]
      BY <2>1 DEF Cuts
    <2>3. Ends(handled) = {handled[i] : i \in DOMAIN handled}
      BY <2>1 DEF Ends
    <2>4. ASSUME NoNewline(pending)
          PROVE  /\ Ends(handled) = Acceptable(arrived)
                 /\ Broken(arrived) <=> ~Fits(Len(pending))
      <3>1. ASSUME NEW q \in (Done + 1)..Len(arrived) PROVE arrived[q] # Newline
        <4>1. q - Done \in 1..Len(pending) /\ (q - Done) + Done = q
          BY <2>1
        <4>2. pending[q - Done] = arrived[(q - Done) + Done]
          BY <1>1, <4>1 DEF FramingInv
        <4> QED BY <2>4, <4>1, <4>2 DEF NoNewline
      <3>2. /\ Ends(handled) = Acceptable(arrived)
            /\ Broken(arrived) <=> Len(arrived) - Done > MaxFrame
        BY <2>1, <3>1, AllCut
      <3>3. Len(arrived) - Done > MaxFrame <=> ~Fits(Len(pending))
        BY <2>1 DEF Fits
      <3> QED BY <3>2, <3>3
    <2>5. ASSUME NEW p \in 1..Len(pending), FirstNewline(pending, p), Refused(p)
          PROVE  Ends(handled) = Acceptable(arrived) /\ Broken(arrived)
      <3>1. /\ p + Done \in (Done + 1)..Len(arrived) /\ IsLine(arrived, Done, p + Done)
            /\ ~GoodLine(arrived, Done, p + Done)
        BY <1>1, <2>5, PendingLine
      <3> QED BY <2>1, <3>1, BadCut
    <2>6. stage # "cut" =>
            /\ Ends(handled) = Acceptable(arrived)
            /\ stage = "ended" <=> Broken(arrived)
      BY <1>1, <2>1, <2>4, <2>5 DEF FramingInv, AtRest
    <2> QED BY <2>2, <2>3, <2>6 DEF CutsByLine
  <1> QED BY <1>1, FramingInvariant, PTL

=============================================================================
