---------------------------- MODULE StdioProofs -----------------------------
(***************************************************************************)
(* Proofs about StdioPath, for any number of links, of connections of the  *)
(* mux and of messages: a callback is neither lost nor run twice, and the  *)
(* output is in order, not repeated and, until something fails, complete.  *)
(***************************************************************************)
EXTENDS StdioPath, TLAPS

USE ZenonT(8), SMTT(20)

-----------------------------------------------------------------------------
(* Sequences. *)

LEMMA SameSeq ==
    ASSUME NEW S, NEW s \in Seq(S), NEW t \in Seq(S), Len(s) = Len(t),
           \A i \in 1 .. Len(s) : s[i] = t[i]
    PROVE  s = t
  OBVIOUS

LEMMA NoneIn == DOMAIN <<>> = {} /\ \A S : <<>> \in Seq(S)
  OBVIOUS

LEMMA Last ==
    ASSUME NEW S, NEW s \in Seq(S), NEW e \in S
    PROVE  /\ Append(s, e) \in Seq(S) /\ Append(s, e) # <<>>
           /\ DOMAIN Append(s, e) = DOMAIN s \cup {Len(s) + 1}
           /\ Append(s, e)[Len(s) + 1] = e
           /\ \A i \in DOMAIN s : i \in Int /\ i < Len(s) + 1 /\ Append(s, e)[i] = s[i]
           /\ Len(s) + 1 \notin DOMAIN s
<1>1. /\ Len(s) \in Nat /\ DOMAIN s = 1 .. Len(s) /\ Append(s, e) \in Seq(S)
      /\ Len(Append(s, e)) = Len(s) + 1
  OBVIOUS
<1>2. DOMAIN Append(s, e) = 1 .. Len(s) + 1
  BY <1>1
<1>3. 1 .. Len(s) + 1 = (1 .. Len(s)) \cup {Len(s) + 1}
  BY <1>1
<1>4. /\ Append(s, e)[Len(s) + 1] = e
      /\ \A i \in DOMAIN s : i \in Int /\ i < Len(s) + 1 /\ Append(s, e)[i] = s[i]
  BY <1>1
<1>5. Append(s, e) # <<>> /\ Len(s) + 1 \notin DOMAIN s
  BY <1>1
<1> QED
  BY <1>1, <1>2, <1>3, <1>4, <1>5

LEMMA Front ==
    ASSUME NEW S, NEW s \in Seq(S), s # <<>>
    PROVE  /\ Head(s) \in S /\ Tail(s) \in Seq(S) /\ 1 \in DOMAIN s /\ Head(s) = s[1]
           /\ \A i \in DOMAIN Tail(s) : /\ i \in Int /\ i + 1 \in DOMAIN s /\ i + 1 # 1 /\ 1 < i + 1
                                        /\ Tail(s)[i] = s[i + 1]
           /\ \A i \in DOMAIN s \ {1} : /\ i \in Int /\ i - 1 \in DOMAIN Tail(s)
                                        /\ Tail(s)[i - 1] = s[i]
<1>1. /\ Len(s) \in Nat \ {0} /\ DOMAIN s = 1 .. Len(s) /\ Tail(s) \in Seq(S)
      /\ Len(Tail(s)) = Len(s) - 1
  OBVIOUS
<1>2. DOMAIN Tail(s) = 1 .. Len(s) - 1
  BY <1>1
<1>3. 1 \in DOMAIN s /\ Head(s) = s[1] /\ Head(s) \in S
  BY <1>1
<1>4. \A i \in 1 .. Len(s) - 1 : Tail(s)[i] = s[i + 1]
  BY <1>1
<1>5. ASSUME NEW i \in DOMAIN Tail(s)
      PROVE  i \in Int /\ i + 1 \in DOMAIN s /\ i + 1 # 1 /\ 1 < i + 1 /\ Tail(s)[i] = s[i + 1]
  BY <1>1, <1>2, <1>4
<1>6. ASSUME NEW i \in DOMAIN s \ {1}
      PROVE  i \in Int /\ i - 1 \in DOMAIN Tail(s) /\ Tail(s)[i - 1] = s[i]
  <2>1. i \in Int /\ i - 1 \in 1 .. Len(s) - 1 /\ (i - 1) + 1 = i
    BY <1>1
  <2>2. Tail(s)[i - 1] = s[(i - 1) + 1]
    BY <1>4, <2>1
  <2> QED
    BY <1>2, <2>1, <2>2
<1> QED
  BY <1>1, <1>3, <1>5, <1>6

LEMMA Joins ==
    ASSUME NEW S, NEW s \in Seq(S), NEW t \in Seq(S)
    PROVE  /\ s \o t \in Seq(S) /\ (t = <<>> => s \o t = s) /\ (s = <<>> => s \o t = t)
           /\ s \o t = <<>> => s = <<>> /\ t = <<>>
<1>1. s \o t \in Seq(S) /\ Len(s \o t) = Len(s) + Len(t) /\ Len(s) \in Nat /\ Len(t) \in Nat
  OBVIOUS
<1>2. /\ \A i \in 1 .. Len(s) : (s \o t)[i] = s[i]
      /\ \A i \in 1 .. Len(t) : (s \o t)[Len(s) + i] = t[i]
  BY <1>1
<1>3. ASSUME t = <<>> PROVE s \o t = s
  <2>1. Len(s \o t) = Len(s)
    BY <1>1, <1>3
  <2> QED
    BY <1>1, <1>2, <2>1, SameSeq
<1>4. ASSUME s = <<>> PROVE s \o t = t
  <2>1. Len(s) = 0 /\ Len(s \o t) = Len(t)
    BY <1>1, <1>4
  <2>2. \A i \in 1 .. Len(t) : (s \o t)[i] = t[i]
    BY <1>2, <2>1
  <2> QED
    BY <1>1, <2>1, <2>2, SameSeq
<1>5. ASSUME s \o t = <<>> PROVE s = <<>> /\ t = <<>>
  <2>1. Len(s) + Len(t) = 0
    BY <1>1, <1>5
  <2>2. Len(s) = 0 /\ Len(t) = 0
    BY <1>1, <2>1
  <2> QED
    BY <2>2
<1> QED
  BY <1>1, <1>3, <1>4, <1>5

LEMMA JoinLast ==
    ASSUME NEW S, NEW s \in Seq(S), NEW t \in Seq(S), NEW e \in S
    PROVE  s \o Append(t, e) = Append(s \o t, e)
<1>1. /\ s \o t \in Seq(S) /\ Len(s \o t) = Len(s) + Len(t) /\ Len(s) \in Nat /\ Len(t) \in Nat
      /\ Append(t, e) \in Seq(S) /\ Len(Append(t, e)) = Len(t) + 1
  OBVIOUS
<1>2. /\ s \o Append(t, e) \in Seq(S) /\ Append(s \o t, e) \in Seq(S)
      /\ Len(s \o Append(t, e)) = Len(s) + (Len(t) + 1) /\ Len(Append(s \o t, e)) = Len(s \o t) + 1
  BY <1>1
<1>3. ASSUME NEW i \in 1 .. Len(s) + Len(t) + 1
      PROVE  (s \o Append(t, e))[i] = Append(s \o t, e)[i]
  BY <1>1, <1>3
<1> QED
  BY <1>1, <1>2, <1>3, SameSeq

LEMMA JoinMoved ==
    ASSUME NEW S, NEW s \in Seq(S), NEW t \in Seq(S), t # <<>>
    PROVE  Append(s, Head(t)) \o Tail(t) = s \o t
<1>1. /\ Len(s) \in Nat /\ Len(t) \in Nat \ {0} /\ Head(t) \in S /\ Tail(t) \in Seq(S)
      /\ Len(Tail(t)) = Len(t) - 1 /\ Head(t) = t[1] /\ \A i \in 1 .. Len(t) - 1 : Tail(t)[i] = t[i + 1]
  OBVIOUS
<1>2. /\ Append(s, Head(t)) \in Seq(S) /\ Len(Append(s, Head(t))) = Len(s) + 1
  BY <1>1
<1>3. /\ Append(s, Head(t)) \o Tail(t) \in Seq(S) /\ s \o t \in Seq(S)
      /\ Len(Append(s, Head(t)) \o Tail(t)) = (Len(s) + 1) + (Len(t) - 1)
      /\ Len(s \o t) = Len(s) + Len(t)
  BY <1>1, <1>2
<1>4. ASSUME NEW i \in 1 .. Len(s) + Len(t)
      PROVE  (Append(s, Head(t)) \o Tail(t))[i] = (s \o t)[i]
  <2>1. CASE i <= Len(s)
    BY <1>1, <1>2, <2>1
  <2>2. CASE i = Len(s) + 1
    BY <1>1, <1>2, <2>2
  <2>3. CASE i > Len(s) + 1
    <3>1. i - (Len(s) + 1) \in 1 .. Len(t) - 1
      BY <1>1, <2>3
    <3>2. (Append(s, Head(t)) \o Tail(t))[i] = Tail(t)[i - (Len(s) + 1)]
      BY <1>1, <1>2, <2>3
    <3>3. Tail(t)[i - (Len(s) + 1)] = t[i - Len(s)]
      BY <1>1, <3>1
    <3>4. (s \o t)[i] = t[i - Len(s)]
      BY <1>1, <2>3
    <3> QED
      BY <3>2, <3>3, <3>4
  <2> QED
    BY <1>1, <2>1, <2>2, <2>3
<1> QED
  BY <1>1, <1>3, <1>4, SameSeq

LEMMA JoinFront ==
    ASSUME NEW S, NEW s \in Seq(S), NEW t \in Seq(S), s # <<>>
    PROVE  Tail(s) \o t = Tail(s \o t) /\ Head(s \o t) = Head(s) /\ s \o t # <<>>
<1>1. /\ Len(t) \in Nat /\ Len(s) \in Nat \ {0} /\ Head(s) \in S /\ Tail(s) \in Seq(S)
      /\ Len(Tail(s)) = Len(s) - 1 /\ Head(s) = s[1] /\ \A i \in 1 .. Len(s) - 1 : Tail(s)[i] = s[i + 1]
  OBVIOUS
<1>2. s \o t \in Seq(S) /\ Len(s \o t) = Len(s) + Len(t) /\ s \o t # <<>>
  BY <1>1
<1>3. /\ Head(s \o t) = (s \o t)[1] /\ Tail(s \o t) \in Seq(S)
      /\ Len(Tail(s \o t)) = Len(s \o t) - 1
      /\ \A i \in 1 .. Len(s \o t) - 1 : Tail(s \o t)[i] = (s \o t)[i + 1]
  BY <1>2
<1>4. Head(s \o t) = Head(s)
  BY <1>1, <1>3
<1>5. Tail(s) \o t \in Seq(S) /\ Len(Tail(s) \o t) = (Len(s) - 1) + Len(t)
  BY <1>1
<1>6. ASSUME NEW i \in 1 .. (Len(s) - 1) + Len(t)
      PROVE  (Tail(s) \o t)[i] = Tail(s \o t)[i]
  <2>1. Tail(s \o t)[i] = (s \o t)[i + 1]
    BY <1>1, <1>2, <1>3
  <2>2. CASE i <= Len(s) - 1
    BY <1>1, <2>1, <2>2
  <2>3. CASE i > Len(s) - 1
    <3>1. (Tail(s) \o t)[i] = t[i - (Len(s) - 1)]
      BY <1>1, <2>3
    <3>2. (s \o t)[i + 1] = t[(i + 1) - Len(s)]
      BY <1>1, <2>3
    <3> QED
      BY <1>1, <2>1, <3>1, <3>2
  <2> QED
    BY <1>1, <2>2, <2>3
<1> QED
  BY <1>1, <1>2, <1>3, <1>4, <1>5, <1>6, SameSeq


(* What a sequence of messages carries. *)

LEMMA NoneCarried ==
    ASSUME NEW l
    PROVE  ~Carries(<<>>, l) /\ CarriesOne(<<>>, l) /\ Rising(<<>>)
  BY NoneIn DEF Carries, CarriesOne, Rising

LEMMA NoneBefore ==
    ASSUME NEW s
    PROVE  Before(<<>>, s) /\ Before(s, <<>>)
  BY NoneIn DEF Before

LEMMA CarriesLast ==
    ASSUME NEW s \in Seq(Entries), NEW e \in Entries, NEW l
    PROVE  /\ Carries(Append(s, e), l) <=> Carries(s, l) \/ CallbackOf(e, l)
           /\ CarriesOne(s, l) /\ ~(Carries(s, l) /\ CallbackOf(e, l))
                 => CarriesOne(Append(s, e), l)
<1> DEFINE b == Append(s, e)
           z == Len(s) + 1
<1>1. /\ DOMAIN b = DOMAIN s \cup {z} /\ b[z] = e
      /\ \A i \in DOMAIN s : b[i] = s[i]
  BY Last
<1> HIDE DEF b, z
<1> QED
  BY <1>1 DEF Carries, CarriesOne, b

LEMMA CarriesFront ==
    ASSUME NEW s \in Seq(Entries), s # <<>>, NEW l
    PROVE  /\ Carries(s, l) <=> Carries(Tail(s), l) \/ CallbackOf(Head(s), l)
           /\ CarriesOne(s, l) => /\ CarriesOne(Tail(s), l)
                                  /\ ~(Carries(Tail(s), l) /\ CallbackOf(Head(s), l))
<1> DEFINE b == Tail(s)
<1>1. /\ 1 \in DOMAIN s /\ Head(s) = s[1]
      /\ \A i \in DOMAIN b : i \in Int /\ i + 1 \in DOMAIN s /\ i + 1 # 1 /\ b[i] = s[i + 1]
      /\ \A i \in DOMAIN s \ {1} : i \in Int /\ i - 1 \in DOMAIN b /\ b[i - 1] = s[i]
  BY Front
<1> HIDE DEF b
<1>2. Carries(s, l) <=> Carries(b, l) \/ CallbackOf(Head(s), l)
  <2>1. ASSUME Carries(s, l) PROVE Carries(b, l) \/ CallbackOf(Head(s), l)
    BY <1>1, <2>1 DEF Carries
  <2>2. ASSUME Carries(b, l) PROVE Carries(s, l)
    BY <1>1, <2>2 DEF Carries
  <2>3. ASSUME CallbackOf(Head(s), l) PROVE Carries(s, l)
    BY <1>1, <2>3 DEF Carries
  <2> QED
    BY <2>1, <2>2, <2>3
<1>3. ASSUME CarriesOne(s, l), NEW i \in DOMAIN b, NEW j \in DOMAIN b,
             CallbackOf(b[i], l), CallbackOf(b[j], l)
      PROVE  i = j
  <2>1. i + 1 = j + 1
    BY <1>1, <1>3 DEF CarriesOne
  <2> QED
    BY <1>1, <2>1
<1>4. ASSUME CarriesOne(s, l), NEW i \in DOMAIN b, CallbackOf(b[i], l), CallbackOf(Head(s), l)
      PROVE  FALSE
  <2>1. i + 1 = 1
    BY <1>1, <1>4 DEF CarriesOne
  <2> QED
    BY <1>1, <2>1
<1>5. CarriesOne(s, l) => CarriesOne(b, l) /\ ~(Carries(b, l) /\ CallbackOf(Head(s), l))
  BY <1>3, <1>4 DEF CarriesOne, Carries
<1> QED
  BY <1>2, <1>5 DEF b

LEMMA CarriesSilent ==
    ASSUME NEW s, \A i \in DOMAIN s : ~s[i].callback, NEW l
    PROVE  ~Carries(s, l) /\ CarriesOne(s, l)
  BY DEF Carries, CarriesOne, CallbackOf

LEMMA WaitingCarried ==
    ASSUME NEW s \in Seq(Entries)
    PROVE  Waiting(s) = {l \in Links : Carries(s, l)}
<1>1. \A i \in DOMAIN s : s[i] \in Entries
  OBVIOUS
<1>2. \A i \in DOMAIN s : s[i].link \in Links
  BY <1>1 DEF Entries
<1> QED
  BY <1>2 DEF Waiting, Carries, CallbackOf

LEMMA RisingLast ==
    ASSUME NEW s \in Seq(Entries), NEW e \in Entries, Rising(s),
           \A i \in DOMAIN s : s[i].link = e.link => s[i].n < e.n
    PROVE  Rising(Append(s, e))
<1> DEFINE b == Append(s, e)
           z == Len(s) + 1
<1>1. /\ DOMAIN b = DOMAIN s \cup {z} /\ b[z] = e /\ z \in Int
      /\ \A i \in DOMAIN s : i \in Int /\ i < z /\ b[i] = s[i]
  BY Last
<1> HIDE DEF b, z
<1>2. ASSUME NEW i \in DOMAIN b, NEW j \in DOMAIN b, i < j, b[i].link = b[j].link
      PROVE  b[i].n < b[j].n
  <2>1. CASE j \in DOMAIN s
    <3>1. i # z
      BY <1>1, <1>2, <2>1
    <3> QED
      BY <1>1, <1>2, <2>1, <3>1 DEF Rising
  <2>2. CASE j = z
    <3>1. i # z
      BY <1>1, <1>2, <2>2
    <3> QED
      BY <1>1, <1>2, <2>2, <3>1
  <2> QED
    BY <1>1, <2>1, <2>2
<1> QED
  BY <1>2 DEF Rising, b

LEMMA RisingFront ==
    ASSUME NEW s \in Seq(Entries), s # <<>>, Rising(s)
    PROVE  Rising(Tail(s)) /\ Before(<<Head(s)>>, Tail(s))
<1> DEFINE b == Tail(s)
<1>1. /\ 1 \in DOMAIN s /\ Head(s) = s[1]
      /\ \A i \in DOMAIN b : i \in Int /\ i + 1 \in DOMAIN s /\ 1 < i + 1 /\ b[i] = s[i + 1]
  BY Front
<1> HIDE DEF b
<1>2. ASSUME NEW i \in DOMAIN b, NEW j \in DOMAIN b, i < j, b[i].link = b[j].link
      PROVE  b[i].n < b[j].n
  <2>1. i + 1 < j + 1
    BY <1>1, <1>2
  <2> QED
    BY <1>1, <1>2, <2>1 DEF Rising
<1>3. ASSUME NEW j \in DOMAIN b, Head(s).link = b[j].link
      PROVE  Head(s).n < b[j].n
  BY <1>1, <1>3 DEF Rising
<1>4. DOMAIN <<Head(s)>> = {1} /\ <<Head(s)>>[1] = Head(s)
  OBVIOUS
<1> QED
  BY <1>2, <1>3, <1>4 DEF Rising, Before, b

LEMMA BeforeLast ==
    ASSUME NEW s \in Seq(Entries), NEW e \in Entries, NEW t
    PROVE  /\ Before(Append(s, e), t) <=> Before(s, t) /\ Before(<<e>>, t)
           /\ Before(t, Append(s, e)) <=> Before(t, s) /\ Before(t, <<e>>)
<1> DEFINE b == Append(s, e)
           z == Len(s) + 1
<1>1. /\ DOMAIN b = DOMAIN s \cup {z} /\ b[z] = e /\ \A i \in DOMAIN s : b[i] = s[i]
  BY Last
<1>2. DOMAIN <<e>> = {1} /\ <<e>>[1] = e
  OBVIOUS
<1> HIDE DEF b, z
<1>3. Before(b, t) <=> Before(s, t) /\ Before(<<e>>, t)
  BY <1>1, <1>2 DEF Before
<1>4. Before(t, b) <=> Before(t, s) /\ Before(t, <<e>>)
  BY <1>1, <1>2 DEF Before
<1> QED
  BY <1>3, <1>4 DEF b

LEMMA BeforeFront ==
    ASSUME NEW s \in Seq(Entries), s # <<>>, NEW t, Before(t, s)
    PROVE  Before(t, Tail(s))
<1> DEFINE b == Tail(s)
<1>1. \A i \in DOMAIN b : i \in Int /\ i + 1 \in DOMAIN s /\ b[i] = s[i + 1]
  BY Front
<1> HIDE DEF b
<1> QED
  BY <1>1 DEF Before, b

LEMMA AmongLast ==
    ASSUME NEW s \in Seq(Entries), NEW e \in Entries, NEW l, NEW n
    PROVE  Among(l, n, Append(s, e)) <=> Among(l, n, s) \/ (e.link = l /\ e.n = n)
<1> DEFINE b == Append(s, e)
           z == Len(s) + 1
<1>1. /\ DOMAIN b = DOMAIN s \cup {z} /\ b[z] = e /\ \A i \in DOMAIN s : b[i] = s[i]
  BY Last
<1> HIDE DEF b, z
<1> QED
  BY <1>1 DEF Among, b

LEMMA AmongFront ==
    ASSUME NEW s \in Seq(Entries), s # <<>>, NEW l, NEW n, Among(l, n, s)
    PROVE  Among(l, n, Tail(s)) \/ (Head(s).link = l /\ Head(s).n = n)
<1> DEFINE b == Tail(s)
<1>1. /\ Head(s) = s[1]
      /\ \A i \in DOMAIN s \ {1} : i - 1 \in DOMAIN b /\ b[i - 1] = s[i]
  BY Front
<1> HIDE DEF b
<1> QED
  BY <1>1 DEF Among, b

\* No message of s is newer than what the links lk have read.
Read(s, lk) == \A i \in DOMAIN s : s[i].n <= lk[s[i].link].n

LEMMA ReadLast ==
    ASSUME NEW s \in Seq(Entries), NEW e \in Entries, NEW lk, Read(s, lk), e.n <= lk[e.link].n
    PROVE  Read(Append(s, e), lk)
<1> DEFINE b == Append(s, e)
           z == Len(s) + 1
<1>1. /\ DOMAIN b = DOMAIN s \cup {z} /\ b[z] = e /\ \A i \in DOMAIN s : b[i] = s[i]
  BY Last
<1> HIDE DEF b, z
<1> QED
  BY <1>1 DEF Read, b

LEMMA ReadFront ==
    ASSUME NEW s \in Seq(Entries), s # <<>>, NEW lk, Read(s, lk)
    PROVE  Read(Tail(s), lk) /\ Head(s).n <= lk[Head(s).link].n
<1> DEFINE b == Tail(s)
<1>1. /\ 1 \in DOMAIN s /\ Head(s) = s[1]
      /\ \A i \in DOMAIN b : i + 1 \in DOMAIN s /\ b[i] = s[i + 1]
  BY Front
<1> HIDE DEF b
<1> QED
  BY <1>1 DEF Read, b

LEMMA ReadMore ==
    ASSUME NEW s \in Seq(Entries), NEW lk, NEW lm, Read(s, lk),
           \A l \in Links : lk[l].n \in Nat /\ lm[l].n \in Nat /\ lk[l].n <= lm[l].n
    PROVE  Read(s, lm)
<1>1. \A i \in DOMAIN s : s[i] \in Entries
  OBVIOUS
<1>2. \A i \in DOMAIN s : s[i].link \in Links /\ s[i].n \in Nat
  BY <1>1 DEF Entries
<1> QED
  BY <1>2 DEF Read

\* A connection that was never there, or is destroyed, has nothing; one that
\* writes has a message to write.
MuxInv(k) ==
    /\ k \in MuxType
    /\ k.state = "none" => k = NoMux
    /\ k.state = "gone" => k.posted = <<>> /\ k.outbox = <<>> /\ k.write = "none" /\ k.read = "over" /\ k.broken
    /\ k.write # "none" => k.outbox # <<>>
    /\ k.write = "failed" => k.broken


GoneMux == [NoMux EXCEPT !.state = "gone", !.read = "over", !.broken = TRUE]

\* The callbacks, with the links lk and the connections mx.
Calls(lk, mx) ==
    \A l \in Links :
        /\ lk[l].away <=> \E m \in Muxes : Carries(Owed(mx[m]), l)
        /\ \A m \in Muxes : CarriesOne(Owed(mx[m]), l)
        /\ \A m, k \in Muxes : Carries(Owed(mx[m]), l) /\ Carries(Owed(mx[k]), l) => m = k

\* The order of the output.
Ordered(mx, del, held) ==
    /\ Rising(del) /\ Rising(held) /\ Before(del, held)
    /\ \A m \in Muxes : /\ Rising(Unsent(mx[m]))
                        /\ Before(del, Unsent(mx[m])) /\ Before(Unsent(mx[m]), held)
    /\ \A m, k \in Muxes : m < k => Before(Unsent(mx[m]), Unsent(mx[k]))

\* All that the links lk have read is there.
Complete(lk, mx, del, held) ==
    \A l \in Links : \A n \in 1 .. lk[l].n :
        Among(l, n, del) \/ Among(l, n, Unsent(mx[1])) \/ Among(l, n, held)

\* The connections mx come one after the other.
InTurn(mx) == \A m, k \in Muxes : m < k /\ mx[k].state # "none" => mx[m].broken

LinkType == [n : Nat, away : BOOLEAN]

StdioType == [drained : BOOLEAN, dropping : BOOLEAN, mux : Muxes \cup {0},
              set : SUBSET Muxes, held : Seq(Entries)]

StdioInv ==
    /\ link \in [Links -> LinkType] /\ stdio \in StdioType /\ mux \in [Muxes -> MuxType]
    /\ delivered \in Seq(Entries) /\ submitted \in BOOLEAN
    /\ Calls(link, mux) /\ Ordered(mux, delivered, stdio.held)
    /\ Intact => Complete(link, mux, delivered, stdio.held)
    /\ \A m \in Muxes : MuxInv(mux[m])
    /\ \A i \in DOMAIN stdio.held : ~stdio.held[i].callback
    /\ stdio.drained => stdio.held = <<>>
    /\ ~stdio.drained => delivered = <<>> /\ \A m \in Muxes : Owed(mux[m]) = <<>>
    /\ Read(delivered, link) /\ Read(stdio.held, link)
    /\ \A m \in Muxes : Read(Owed(mux[m]), link)
    /\ InTurn(mux)
    /\ stdio.mux # 0 => mux[stdio.mux].state # "none"
    /\ submitted => stdio.mux # 0

LEMMA StdioMeans == StdioInv => CallbackHeld /\ OutputComplete
<1> SUFFICES ASSUME StdioInv PROVE CallbackHeld /\ OutputComplete
  OBVIOUS
<1>1. STypeOK
  BY DEF StdioInv, STypeOK, LinkType, StdioType
<1>2. CallbackHeld
  BY <1>1 DEF StdioInv, Calls, CallbackHeld
<1>3. OutputComplete
  BY DEF StdioInv, Ordered, Complete, OutputComplete
<1> QED
  BY <1>2, <1>3

LEMMA MuxSeqs ==
    ASSUME NEW k, MuxInv(k)
    PROVE  /\ k.outbox \in Seq(Entries) /\ k.posted \in Seq(Entries) /\ Owed(k) \in Seq(Entries)
           /\ Unsent(k) \in Seq(Entries)
           /\ Unsent(k) = IF k.broken THEN <<>>
                          ELSE IF k.write = "ok" THEN Tail(Owed(k)) ELSE Owed(k)
           /\ k.outbox # <<>> => Owed(k) # <<>> /\ Head(Owed(k)) = Head(k.outbox)
           /\ Owed(k) = <<>> => k.outbox = <<>> /\ k.posted = <<>>
<1>1. k \in MuxType /\ (k.write = "ok" => k.outbox # <<>>)
  BY DEF MuxInv
<1>2. k.outbox \in Seq(Entries) /\ k.posted \in Seq(Entries) /\ k.broken \in BOOLEAN
  BY <1>1 DEF MuxType
<1>3. Owed(k) \in Seq(Entries) /\ (Owed(k) = <<>> => k.outbox = <<>> /\ k.posted = <<>>)
  BY <1>2, Joins DEF Owed
<1>4. k.outbox # <<>> => /\ Tail(k.outbox) \o k.posted = Tail(Owed(k))
                         /\ Owed(k) # <<>> /\ Head(Owed(k)) = Head(k.outbox)
  BY <1>2, JoinFront, ZenonT(30) DEF Owed
<1>5. Unsent(k) = IF k.broken THEN <<>>
                  ELSE IF k.write = "ok" THEN Tail(Owed(k)) ELSE Owed(k)
  <2>1. CASE k.broken
    BY <2>1 DEF Unsent
  <2>2. CASE ~k.broken /\ k.write = "ok"
    BY <1>1, <1>4, <2>2, ZenonT(30) DEF Unsent
  <2>3. CASE ~k.broken /\ k.write # "ok"
    BY <2>3 DEF Unsent
  <2> QED
    BY <1>2, <2>1, <2>2, <2>3
<1>6. Owed(k) # <<>> => Tail(Owed(k)) \in Seq(Entries)
  BY <1>3, Front
<1>7. Unsent(k) \in Seq(Entries)
  BY <1>1, <1>3, <1>4, <1>5, <1>6, NoneIn
<1> QED
  BY <1>2, <1>3, <1>4, <1>5, <1>7, ZenonT(30)

LEMMA GoneIs ==
    MuxInv(GoneMux) /\ Owed(GoneMux) = <<>> /\ Unsent(GoneMux) = <<>> /\ GoneMux.state = "gone" /\ GoneMux.broken
<1>1. /\ GoneMux.posted = <<>> /\ GoneMux.outbox = <<>> /\ GoneMux.write = "none"
      /\ GoneMux.read = "over" /\ GoneMux.broken /\ GoneMux.state = "gone" /\ GoneMux.client = "no"
  BY DEF GoneMux, NoMux
<1>2. GoneMux \in MuxType
  BY NoneIn, ZenonT(30) DEF GoneMux, NoMux, MuxType
<1>3. Owed(GoneMux) = <<>>
  BY <1>1, NoneIn, Joins, ZenonT(30) DEF Owed
<1>4. MuxInv(GoneMux)
  BY <1>1, <1>2 DEF MuxInv
<1>5. Unsent(GoneMux) = <<>>
  BY <1>1, <1>4, MuxSeqs
<1> QED
  BY <1>1, <1>3, <1>4, <1>5

\* Connection m gives up the callbacks of the links D, and they are run.
Runs(lk, mx, lm, my, m, D) ==
    /\ \A v \in Muxes \ {m} : my[v] = mx[v]
    /\ \A l \in Links :
        /\ CarriesOne(Owed(my[m]), l)
        /\ Carries(Owed(my[m]), l) <=> Carries(Owed(mx[m]), l) /\ l \notin D
        /\ l \in D => Carries(Owed(mx[m]), l)
        /\ lm[l].away <=> lk[l].away /\ l \notin D

LEMMA CallsStep ==
    ASSUME NEW lk, NEW mx, Calls(lk, mx), NEW lm, NEW my, NEW m \in Muxes, NEW D,
           Runs(lk, mx, lm, my, m, D)
    PROVE  Calls(lm, my)
<1> USE DEF Runs
<1> SUFFICES ASSUME NEW l \in Links
             PROVE  /\ lm[l].away <=> \E v \in Muxes : Carries(Owed(my[v]), l)
                    /\ \A v \in Muxes : CarriesOne(Owed(my[v]), l)
                    /\ \A v, k \in Muxes : Carries(Owed(my[v]), l) /\ Carries(Owed(my[k]), l) => v = k
  BY DEF Calls
<1>1. /\ lk[l].away <=> \E v \in Muxes : Carries(Owed(mx[v]), l)
      /\ \A v \in Muxes : CarriesOne(Owed(mx[v]), l)
      /\ \A v, k \in Muxes : Carries(Owed(mx[v]), l) /\ Carries(Owed(mx[k]), l) => v = k
  BY DEF Calls
<1>2. \A v \in Muxes : Carries(Owed(my[v]), l) => Carries(Owed(mx[v]), l)
  OBVIOUS
<1>3. \A v \in Muxes : Carries(Owed(mx[v]), l) /\ l \notin D => Carries(Owed(my[v]), l)
  OBVIOUS
<1>4. l \in D => \A v \in Muxes : ~Carries(Owed(my[v]), l)
  BY <1>1
<1>5. \A v \in Muxes : CarriesOne(Owed(my[v]), l)
  BY <1>1
<1> QED
  BY <1>1, <1>2, <1>3, <1>4, <1>5

\* Connection m takes the callback of link z.
Takes(lk, mx, lm, my, m, z) ==
    /\ ~lk[z].away
    /\ \A v \in Muxes \ {m} : my[v] = mx[v]
    /\ \A l \in Links :
        /\ CarriesOne(Owed(my[m]), l)
        /\ Carries(Owed(my[m]), l) <=> Carries(Owed(mx[m]), l) \/ l = z
        /\ lm[l].away <=> lk[l].away \/ l = z

LEMMA CallsAdd ==
    ASSUME NEW lk, NEW mx, Calls(lk, mx), NEW lm, NEW my, NEW m \in Muxes, NEW z \in Links,
           Takes(lk, mx, lm, my, m, z)
    PROVE  Calls(lm, my)
<1> USE DEF Takes
<1> SUFFICES ASSUME NEW l \in Links
             PROVE  /\ lm[l].away <=> \E v \in Muxes : Carries(Owed(my[v]), l)
                    /\ \A v \in Muxes : CarriesOne(Owed(my[v]), l)
                    /\ \A v, k \in Muxes : Carries(Owed(my[v]), l) /\ Carries(Owed(my[k]), l) => v = k
  BY DEF Calls
<1>1. /\ lk[l].away <=> \E v \in Muxes : Carries(Owed(mx[v]), l)
      /\ \A v \in Muxes : CarriesOne(Owed(mx[v]), l)
      /\ \A v, k \in Muxes : Carries(Owed(mx[v]), l) /\ Carries(Owed(mx[k]), l) => v = k
  BY DEF Calls
<1>2. \A v \in Muxes : CarriesOne(Owed(my[v]), l)
  BY <1>1
<1>3. CASE l = z
  <2>1. \A v \in Muxes : ~Carries(Owed(mx[v]), l)
    BY <1>1, <1>3
  <2> QED
    BY <1>2, <1>3, <2>1
<1>4. CASE l # z
  <2>1. \A v \in Muxes : Carries(Owed(my[v]), l) <=> Carries(Owed(mx[v]), l)
    BY <1>4
  <2> QED
    BY <1>1, <1>2, <1>4, <2>1
<1> QED
  BY <1>3, <1>4

LEMMA OrderedLess ==
    ASSUME NEW mx, NEW my, NEW del, NEW held, Ordered(mx, del, held),
           \A m \in Muxes : Unsent(my[m]) \in {Unsent(mx[m]), <<>>}
    PROVE  Ordered(my, del, held)
<1>1. ASSUME NEW m \in Muxes
      PROVE  Rising(Unsent(my[m])) /\ Before(del, Unsent(my[m])) /\ Before(Unsent(my[m]), held)
  BY NoneCarried, NoneBefore DEF Ordered
<1>2. ASSUME NEW m \in Muxes, NEW k \in Muxes, m < k
      PROVE  Before(Unsent(my[m]), Unsent(my[k]))
  BY <1>2, NoneBefore DEF Ordered
<1> QED
  BY <1>1, <1>2 DEF Ordered

LEMMA InTurnStep ==
    ASSUME NEW mx, NEW my, InTurn(mx), NEW m \in Muxes,
           \A v \in Muxes \ {m} : my[v] = mx[v], mx[m].broken => my[m].broken,
           my[m].state # "none" => \A v \in Muxes : v < m => mx[v].broken
    PROVE  InTurn(my)
<1> SUFFICES ASSUME NEW v \in Muxes, NEW k \in Muxes, v < k, my[k].state # "none"
             PROVE  my[v].broken
  BY DEF InTurn
<1>1. v # k
  BY StdioAssumption
<1>2. CASE k = m
  BY <1>1, <1>2
<1>3. CASE k # m
  BY <1>3 DEF InTurn
<1> QED
  BY <1>2, <1>3

\* One connection changes, and the callbacks of the links D are run.
LEMMA MuxStep ==
    ASSUME StdioInv, NEW m \in Muxes, NEW k, NEW D, mux' = [mux EXCEPT ![m] = k], MuxInv(k),
           Unsent(k) \in {Unsent(mux[m]), <<>>}, Read(Owed(k), link),
           Owed(mux[m]) = <<>> => Owed(k) = <<>>,
           mux[m].broken => k.broken,
           mux[m].state # "none" => k.state # "none",
           k.state # "none" => \A v \in Muxes : v < m => mux[v].broken,
           \A l \in Links :
              /\ CarriesOne(Owed(k), l)
              /\ Carries(Owed(k), l) <=> Carries(Owed(mux[m]), l) /\ l \notin D
              /\ l \in D => Carries(Owed(mux[m]), l)
              /\ link'[l].n = link[l].n
              /\ link'[l].away <=> link[l].away /\ l \notin D,
           link' \in [Links -> LinkType], stdio' \in StdioType,
           stdio'.held = stdio.held, stdio'.drained = stdio.drained, stdio'.mux = stdio.mux,
           UNCHANGED <<delivered, submitted>>,
           Intact' => Intact /\ (m = 1 => Unsent(k) = Unsent(mux[m]))
    PROVE  StdioInv'
<1>1. /\ mux \in [Muxes -> MuxType] /\ k \in MuxType
      /\ mux'[m] = k /\ \A v \in Muxes \ {m} : mux'[v] = mux[v]
  BY ZenonT(30) DEF StdioInv, MuxInv
<1>2. mux' \in [Muxes -> MuxType]
  BY <1>1, ZenonT(30)
<1>3. Calls(link', mux')
  <2>1. Calls(link, mux)
    BY ZenonT(30) DEF StdioInv
  <2>2. Runs(link, mux, link', mux', m, D)
    BY <1>1, ZenonT(30) DEF Runs
  <2> QED
    BY <2>1, <2>2, CallsStep
<1>4. \A v \in Muxes : Unsent(mux'[v]) \in {Unsent(mux[v]), <<>>}
  BY <1>1
<1>5. Ordered(mux', delivered', stdio'.held)
  BY <1>4, OrderedLess, ZenonT(30) DEF StdioInv
<1>6. ASSUME Intact' PROVE Complete(link', mux', delivered', stdio'.held)
  <2>1. Complete(link, mux, delivered, stdio.held)
    BY <1>6, ZenonT(30) DEF StdioInv
  <2>2. Unsent(mux'[1]) = Unsent(mux[1])
    BY <1>1, <1>6, StdioAssumption, ZenonT(30)
  <2> QED
    BY <2>1, <2>2 DEF Complete
<1>7. \A v \in Muxes : MuxInv(mux'[v])
  BY <1>1, ZenonT(30) DEF StdioInv
<1>8. \A l \in Links : link[l].n \in Nat /\ link'[l].n \in Nat /\ link[l].n <= link'[l].n
  <2>1. \A l \in Links : link[l] \in LinkType
    BY ZenonT(30) DEF StdioInv
  <2> QED
    BY <2>1 DEF LinkType
<1>9. Read(delivered', link') /\ Read(stdio'.held, link')
  <2>1. delivered \in Seq(Entries) /\ stdio.held \in Seq(Entries)
    BY DEF StdioInv, StdioType
  <2> QED
    BY <1>8, <2>1, ReadMore, ZenonT(30) DEF StdioInv
<1>10. ASSUME NEW v \in Muxes PROVE Read(Owed(mux'[v]), link')
  <2>1. Read(Owed(mux'[v]), link)
    BY <1>1, ZenonT(30) DEF StdioInv
  <2>2. Owed(mux'[v]) \in Seq(Entries)
    BY <1>7, MuxSeqs, ZenonT(30)
  <2> QED
    BY <1>8, <2>1, <2>2, ReadMore, ZenonT(30)
<1>11. InTurn(mux')
  BY <1>1, InTurnStep, ZenonT(30) DEF StdioInv
<1>12. stdio'.mux # 0 => mux'[stdio'.mux].state # "none"
  <2>1. stdio.mux # 0 => stdio.mux \in Muxes
    BY DEF StdioInv, StdioType
  <2> QED
    BY <1>1, <2>1, ZenonT(30) DEF StdioInv
<1>13. ~stdio'.drained => delivered' = <<>> /\ \A v \in Muxes : Owed(mux'[v]) = <<>>
  BY <1>1, ZenonT(30) DEF StdioInv
<1>14. /\ delivered' \in Seq(Entries) /\ submitted' \in BOOLEAN
       /\ \A i \in DOMAIN stdio'.held : ~stdio'.held[i].callback
       /\ stdio'.drained => stdio'.held = <<>>
       /\ submitted' => stdio'.mux # 0
  BY ZenonT(30) DEF StdioInv
<1> HIDE DEF StdioInv
<1> QED
  BY <1>2, <1>3, <1>5, <1>6, <1>7, <1>9, <1>10, <1>11, <1>12, <1>13, <1>14, Zenon DEF StdioInv

\* resume runs the callbacks of ls.
LEMMA Resumed ==
    ASSUME link \in [Links -> LinkType], NEW ls, link' = resume(ls)
    PROVE  /\ link' \in [Links -> LinkType]
           /\ \A l \in Links : /\ link'[l].n = link[l].n
                               /\ link'[l].away <=> link[l].away /\ l \notin ls
<1>1. ASSUME NEW l \in Links
      PROVE  /\ link'[l] \in LinkType /\ link'[l].n = link[l].n
             /\ link'[l].away <=> link[l].away /\ l \notin ls
  <2>1. link'[l] = IF l \in ls THEN [link[l] EXCEPT !.away = FALSE] ELSE link[l]
    BY DEF resume
  <2>2. link[l] \in LinkType
    OBVIOUS
  <2>3. CASE l \in ls
    <3>1. link'[l] = [link[l] EXCEPT !.away = FALSE]
      BY <2>1, <2>3
    <3>2. link'[l] \in LinkType /\ link'[l].n = link[l].n /\ link'[l].away = FALSE
      BY <2>2, <3>1, ZenonT(30) DEF LinkType
    <3> QED
      BY <2>3, <3>2
  <2>4. CASE l \notin ls
    BY <2>1, <2>2, <2>4
  <2> QED
    BY <2>3, <2>4
<1>2. link' = [l \in Links |-> link'[l]]
  BY DEF resume
<1> QED
  BY <1>1, <1>2

\* A handler turns connection m into k, with the callbacks D run, and the
\* connection is destroyed if nothing owns it.
LEMMA BecomeStep ==
    ASSUME StdioInv, NEW m \in Muxes, NEW k, NEW ls, Become(m, k, ls), MuxInv(k),
           mux[m].state = "up", k.state = "up", Unsent(k) = Unsent(mux[m]),
           \/ Owed(k) = Owed(mux[m]) /\ ls = {}
           \/ /\ Owed(mux[m]) # <<>> /\ Owed(k) = Tail(Owed(mux[m]))
              /\ ls = Waiting(<<Head(Owed(mux[m]))>>),
           mux[m].broken => k.broken, k.read = "pending" => mux[m].read = "pending",
           stdio' \in StdioType, stdio'.held = stdio.held, stdio'.drained = stdio.drained,
           stdio'.mux = stdio.mux, stdio.dropping => stdio'.dropping,
           UNCHANGED <<delivered, submitted>>
    PROVE  StdioInv'
<1> DEFINE s == Owed(mux[m])
           D == ls \cup destroyedCallbacks(k)
           r == IF Unowned(k) THEN GoneMux ELSE k
<1>1. mux' = [mux EXCEPT ![m] = r] /\ link' = resume(D)
  BY DEF Become, GoneMux
<1>2. MuxInv(mux[m]) /\ link \in [Links -> LinkType] /\ Calls(link, mux) /\ Read(s, link)
  BY ZenonT(30) DEF StdioInv
<1>3. s \in Seq(Entries) /\ Owed(k) \in Seq(Entries) /\ k.outbox \in Seq(Entries)
  BY <1>2, MuxSeqs, ZenonT(30)
<1>4. \A l \in Links : CarriesOne(s, l)
  BY <1>2, ZenonT(30) DEF Calls
<1> HIDE DEF D, r, s
<1>5. ASSUME NEW l \in Links
      PROVE  /\ CarriesOne(Owed(k), l)
             /\ Carries(Owed(k), l) <=> Carries(s, l) /\ l \notin ls
             /\ l \in ls => Carries(s, l)
  <2>1. CASE Owed(k) = s /\ ls = {}
    BY <1>4, <2>1
  <2>2. CASE s # <<>> /\ Owed(k) = Tail(s) /\ ls = Waiting(<<Head(s)>>)
    <3>1. Head(s) \in Entries /\ DOMAIN <<Head(s)>> = {1} /\ <<Head(s)>>[1] = Head(s)
      BY <1>3, <2>2, Front
    <3>2. l \in ls <=> CallbackOf(Head(s), l)
      BY <2>2, <3>1 DEF Waiting, CallbackOf
    <3>3. /\ Carries(s, l) <=> Carries(Tail(s), l) \/ CallbackOf(Head(s), l)
          /\ CarriesOne(Tail(s), l) /\ ~(Carries(Tail(s), l) /\ CallbackOf(Head(s), l))
      BY <1>3, <1>4, <2>2, CarriesFront
    <3> QED
      BY <2>2, <3>2, <3>3
  <2> QED
    BY <2>1, <2>2 DEF s
<1>6. Read(Owed(k), link)
  BY <1>2, <1>3, ReadFront, ZenonT(30) DEF s
<1>7. \A v \in Muxes : v < m => mux[v].broken
  BY ZenonT(30) DEF StdioInv, InTurn
<1>8. /\ link' \in [Links -> LinkType]
      /\ \A l \in Links : link'[l].n = link[l].n /\ (link'[l].away <=> link[l].away /\ l \notin D)
  BY <1>1, <1>2, Resumed
<1>9. CASE Unowned(k)
  <2>1. r = GoneMux /\ k.posted = <<>> /\ D = ls \cup Waiting(k.outbox)
    BY <1>9 DEF r, D, Unowned, destroyedCallbacks
  <2>2. Owed(k) = k.outbox
    BY <1>3, <2>1, Joins, NoneIn DEF Owed
  <2>3. Waiting(k.outbox) = {l \in Links : Carries(Owed(k), l)}
    BY <1>3, <2>2, WaitingCarried
  <2>4. ASSUME NEW l \in Links
        PROVE  /\ CarriesOne(Owed(r), l)
               /\ Carries(Owed(r), l) <=> Carries(s, l) /\ l \notin D
               /\ l \in D => Carries(s, l)
    BY <1>5, <2>1, <2>3, GoneIs, NoneCarried
  <2>5. Read(Owed(r), link)
    BY <2>1, GoneIs, NoneIn DEF Read
  <2>6. ~(Intact' /\ m = 1) /\ (Intact' => Intact)
    <3>1. mux'[m] = r /\ \A v \in Muxes \ {m} : mux'[v] = mux[v]
      BY <1>1, ZenonT(30) DEF StdioInv
    <3>2. 1 \in Muxes
      BY StdioAssumption, ZenonT(30)
    <3>3. ~(Intact' /\ m = 1)
      BY <2>1, <3>1, GoneIs DEF Intact
    <3>4. m # 1 => (Intact' => Intact)
      BY <3>1, <3>2, ZenonT(30) DEF Intact, StdioInv, StdioType
    <3> QED
      BY <3>3, <3>4
  <2> QED
    <3>1. /\ MuxInv(r) /\ Unsent(r) = <<>> /\ Owed(r) = <<>> /\ r.broken /\ r.state # "none"
      BY <2>1, GoneIs
    <3>2. \A l \in Links :
             /\ CarriesOne(Owed(r), l)
             /\ Carries(Owed(r), l) <=> Carries(Owed(mux[m]), l) /\ l \notin D
             /\ l \in D => Carries(Owed(mux[m]), l)
             /\ link'[l].n = link[l].n
             /\ link'[l].away <=> link[l].away /\ l \notin D
      BY <1>8, <2>4 DEF s
    <3> QED
      BY <1>1, <1>7, <1>8, <2>5, <2>6, <3>1, <3>2, MuxStep, ZenonT(30)
<1>10. CASE ~Unowned(k)
  <2>1. r = k /\ D = ls
    BY <1>10, ZenonT(30) DEF r, D, destroyedCallbacks
  <2>2. Owed(mux[m]) = <<>> => Owed(k) = <<>>
    OBVIOUS
  <2>3. Intact' => Intact
    <3>1. mux'[m] = k /\ \A v \in Muxes \ {m} : mux'[v] = mux[v]
      BY <1>1, <2>1, ZenonT(30) DEF StdioInv
    <3>2. 1 \in Muxes
      BY StdioAssumption
    <3> QED
      BY <3>1, <3>2, ZenonT(30) DEF Intact, StdioInv, StdioType
  <2>4. \A l \in Links :
           /\ CarriesOne(Owed(k), l)
           /\ Carries(Owed(k), l) <=> Carries(Owed(mux[m]), l) /\ l \notin ls
           /\ l \in ls => Carries(Owed(mux[m]), l)
           /\ link'[l].n = link[l].n
           /\ link'[l].away <=> link[l].away /\ l \notin ls
    BY <1>5, <1>8, <2>1, ZenonT(30) DEF s
  <2>5. mux' = [mux EXCEPT ![m] = k] /\ link' \in [Links -> LinkType]
    BY <1>1, <1>8, <2>1, ZenonT(30)
  <2> QED
    BY <1>6, <1>7, <2>2, <2>3, <2>4, <2>5, MuxStep, ZenonT(30)
<1> QED
  BY <1>9, <1>10

\* A connection that has, writes or reads something is there.
LEMMA IsUp ==
    ASSUME NEW k, MuxInv(k),
           k.posted # <<>> \/ k.outbox # <<>> \/ k.write # "none" \/ k.read = "failed"
    PROVE  k.state = "up"
<1>1. k.state \in {"none", "up", "gone"}
  BY DEF MuxInv, MuxType
<1>2. k.state # "none"
  BY DEF MuxInv, NoMux
<1>3. k.state # "gone"
  BY DEF MuxInv
<1> QED
  BY <1>1, <1>2, <1>3

LEMMA WriteImplStep ==
    ASSUME StdioInv, NEW m \in Muxes, MuxWriteImpl(m)
    PROVE  StdioInv'
<1> DEFINE o == mux[m]
           j == [o EXCEPT !.posted = Tail(o.posted), !.outbox = Append(o.outbox, Head(o.posted))]
           k == IF Len(j.outbox) > 1 THEN j ELSE [j EXCEPT !.write = "pending"]
<1>1. o.posted # <<>> /\ Become(m, k, {}) /\ UNCHANGED <<stdio, delivered, submitted>>
  BY DEF MuxWriteImpl
<1>2. MuxInv(o) /\ stdio \in StdioType
  BY DEF StdioInv
<1>3. o \in MuxType /\ o.outbox \in Seq(Entries) /\ o.posted \in Seq(Entries) /\ o.state = "up"
  BY <1>1, <1>2, MuxSeqs, IsUp DEF MuxInv
<1>4. Head(o.posted) \in Entries /\ Tail(o.posted) \in Seq(Entries)
  BY <1>1, <1>3, Front
<1>5. /\ Append(o.outbox, Head(o.posted)) \in Seq(Entries) /\ Append(o.outbox, Head(o.posted)) # <<>>
      /\ Len(Append(o.outbox, Head(o.posted))) > 1 \/ o.outbox = <<>>
  <2>1. Len(Append(o.outbox, Head(o.posted))) = Len(o.outbox) + 1 /\ Len(o.outbox) \in Nat
    BY <1>3, <1>4
  <2>2. o.outbox # <<>> => Len(o.outbox) > 0
    BY <1>3
  <2> QED
    BY <1>3, <1>4, <2>1, <2>2, Last
<1>6. Append(o.outbox, Head(o.posted)) \o Tail(o.posted) = o.outbox \o o.posted
  BY <1>1, <1>3, JoinMoved, ZenonT(30)
<1> HIDE DEF o
<1>7. /\ j \in MuxType /\ j.outbox = Append(o.outbox, Head(o.posted)) /\ j.posted = Tail(o.posted)
      /\ j.state = o.state /\ j.broken = o.broken /\ j.read = o.read /\ j.write = o.write
  BY <1>3, <1>4, <1>5, ZenonT(30) DEF MuxType
<1> HIDE DEF j
<1>8. /\ k \in MuxType /\ k.outbox = j.outbox /\ k.posted = j.posted
      /\ k.state = j.state /\ k.broken = j.broken /\ k.read = j.read
      /\ \/ k.write = o.write
         \/ k.write = "pending" /\ o.outbox = <<>>
  BY <1>5, <1>7, ZenonT(30) DEF MuxType
<1> HIDE DEF k
<1>9. MuxInv(k)
  BY <1>2, <1>3, <1>5, <1>7, <1>8 DEF MuxInv
<1>10. Owed(k) = Owed(o)
  BY <1>6, <1>7, <1>8, ZenonT(30) DEF Owed
<1>11. o.outbox = <<>> => o.write = "none"
  BY <1>2 DEF MuxInv
<1>12. Unsent(k) = Unsent(o)
  <2>1. k.broken = o.broken /\ (k.write = "ok" <=> o.write = "ok")
    BY <1>7, <1>8, <1>11
  <2> QED
    BY <1>2, <1>9, <1>10, <2>1, MuxSeqs, ZenonT(30)
<1>13. k.state = "up" /\ k.broken = o.broken /\ k.read = o.read
  BY <1>3, <1>7, <1>8
<1> QED
  BY <1>1, <1>2, <1>3, <1>9, <1>10, <1>12, <1>13, BecomeStep, ZenonT(30) DEF o

LEMMA WriteHandlerStep ==
    ASSUME StdioInv, NEW m \in Muxes, MuxWriteHandler(m)
    PROVE  StdioInv'
<1> DEFINE o == mux[m]
           w == nextWrite(Tail(o.outbox), o.write)
           k == [o EXCEPT !.outbox = Tail(o.outbox), !.write = w]
<1>1. /\ o.write \in {"ok", "failed"} /\ Become(m, k, Waiting(<<Head(o.outbox)>>))
      /\ UNCHANGED <<stdio, delivered, submitted>>
  BY DEF MuxWriteHandler
<1>2. MuxInv(o) /\ stdio \in StdioType
  BY DEF StdioInv
<1> HIDE DEF o
<1>3. /\ o \in MuxType /\ o.outbox # <<>> /\ o.state = "up" /\ o.write # "none"
      /\ o.outbox \in Seq(Entries) /\ o.posted \in Seq(Entries)
  BY <1>1, <1>2, MuxSeqs, IsUp DEF MuxInv
<1>4. Tail(o.outbox) \in Seq(Entries)
  BY <1>3, Front
<1>5. w \in {"none", "pending"} /\ (w # "none" => Tail(o.outbox) # <<>>)
  BY DEF nextWrite
<1> HIDE DEF w
<1>6. /\ k \in MuxType /\ k.outbox = Tail(o.outbox) /\ k.posted = o.posted /\ k.write = w
      /\ k.state = o.state /\ k.broken = o.broken /\ k.read = o.read
  BY <1>3, <1>4, <1>5, ZenonT(30) DEF MuxType
<1> HIDE DEF k
<1>7. MuxInv(k)
  BY <1>3, <1>5, <1>6 DEF MuxInv
<1>8. /\ Owed(k) = Tail(Owed(o)) /\ Owed(o) # <<>> /\ Head(Owed(o)) = Head(o.outbox)
  BY <1>3, <1>6, JoinFront, ZenonT(30) DEF Owed
<1>9. ~o.broken => o.write = "ok"
  BY <1>1, <1>2 DEF MuxInv
<1>10. Unsent(k) = Unsent(o)
  <2>1. k.write # "ok"
    BY <1>5, <1>6
  <2> QED
    BY <1>2, <1>6, <1>7, <1>8, <1>9, <2>1, MuxSeqs, ZenonT(30)
<1> QED
  BY <1>1, <1>2, <1>3, <1>6, <1>7, <1>8, <1>10, BecomeStep, ZenonT(30) DEF o

LEMMA ReadHandlerStep ==
    ASSUME StdioInv, NEW m \in Muxes, MuxReadHandler(m)
    PROVE  StdioInv'
<1> DEFINE o == mux[m]
           c == IF o.client = "yes" THEN "eof" ELSE o.client
           k == [o EXCEPT !.read = "over", !.client = c]
<1>1. /\ o.read = "failed" /\ Become(m, k, {}) /\ UNCHANGED <<delivered, submitted>>
      /\ stdio' = IF o.client = "yes" THEN [stdio EXCEPT !.dropping = TRUE] ELSE stdio
  BY DEF MuxReadHandler
<1>2. MuxInv(o) /\ stdio \in StdioType
  BY DEF StdioInv
<1> HIDE DEF o
<1>3. o \in MuxType /\ o.state = "up"
  BY <1>1, <1>2, IsUp DEF MuxInv
<1>4. c \in {"no", "yes", "eof"}
  BY <1>3 DEF MuxType
<1> HIDE DEF c
<1>5. /\ k \in MuxType /\ k.outbox = o.outbox /\ k.posted = o.posted /\ k.write = o.write
      /\ k.state = o.state /\ k.broken = o.broken /\ k.read = "over"
  BY <1>3, <1>4, ZenonT(30) DEF MuxType
<1> HIDE DEF k
<1>6. MuxInv(k)
  BY <1>2, <1>3, <1>5 DEF MuxInv
<1>7. Owed(k) = Owed(o) /\ Unsent(k) = Unsent(o)
  BY <1>5 DEF Owed, Unsent
<1>8. /\ stdio' \in StdioType /\ stdio'.held = stdio.held /\ stdio'.drained = stdio.drained
      /\ stdio'.mux = stdio.mux /\ (stdio.dropping => stdio'.dropping)
  BY <1>1, <1>2, ZenonT(30) DEF StdioType
<1> QED
  BY <1>1, <1>3, <1>5, <1>6, <1>7, <1>8, BecomeStep, ZenonT(30) DEF o

\* A change of a connection that leaves the links alone.
LEMMA QuietStep ==
    ASSUME StdioInv, NEW m \in Muxes, NEW k, mux' = [mux EXCEPT ![m] = k], MuxInv(k),
           Owed(k) = Owed(mux[m]), Unsent(k) \in {Unsent(mux[m]), <<>>},
           mux[m].broken => k.broken, mux[m].state # "none" => k.state # "none",
           k.state # "none" => \A v \in Muxes : v < m => mux[v].broken,
           UNCHANGED <<link, stdio, delivered, submitted>>,
           Intact' => Intact /\ (m = 1 => Unsent(k) = Unsent(mux[m]))
    PROVE  StdioInv'
<1> DEFINE D == {}
<1>1. /\ link' = link /\ stdio' = stdio /\ UNCHANGED <<delivered, submitted>>
      /\ Owed(mux[m]) = <<>> => Owed(k) = <<>>
  OBVIOUS
<1>2. \A l \in Links :
         /\ CarriesOne(Owed(k), l)
         /\ Carries(Owed(k), l) <=> Carries(Owed(mux[m]), l) /\ l \notin D
         /\ l \in D => Carries(Owed(mux[m]), l)
         /\ link'[l].n = link[l].n
         /\ link'[l].away <=> link[l].away /\ l \notin D
  BY <1>1, ZenonT(30) DEF StdioInv, Calls
<1>3. /\ Read(Owed(k), link) /\ link' \in [Links -> LinkType] /\ stdio' \in StdioType
      /\ stdio'.held = stdio.held /\ stdio'.drained = stdio.drained /\ stdio'.mux = stdio.mux
  BY <1>1, ZenonT(30) DEF StdioInv
<1> HIDE DEF D
<1> QED
  BY <1>1, <1>2, <1>3, MuxStep, Zenon

LEMMA WriteFailsStep ==
    ASSUME StdioInv, NEW m \in Muxes, mux[m].write = "pending",
           mux' = [mux EXCEPT ![m] = [mux[m] EXCEPT !.write = "failed", !.broken = TRUE]],
           UNCHANGED <<link, stdio, delivered, submitted>>
    PROVE  StdioInv'
<1> DEFINE o == mux[m]
           k == [o EXCEPT !.write = "failed", !.broken = TRUE]
<1>1. MuxInv(o) /\ mux \in [Muxes -> MuxType] /\ \A v \in Muxes : v < m /\ o.state # "none" => mux[v].broken
  BY DEF StdioInv, InTurn
<1> HIDE DEF o
<1>2. o \in MuxType /\ o.state = "up" /\ o.outbox # <<>>
  BY <1>1, IsUp DEF MuxInv, o
<1>3. /\ k \in MuxType /\ k.outbox = o.outbox /\ k.posted = o.posted /\ k.write = "failed"
      /\ k.state = o.state /\ k.broken /\ k.read = o.read
  BY <1>2, ZenonT(30) DEF MuxType
<1>4. mux' = [mux EXCEPT ![m] = k]
  BY DEF o
<1> HIDE DEF k
<1>5. MuxInv(k)
  BY <1>2, <1>3 DEF MuxInv
<1>6. Owed(k) = Owed(o) /\ Unsent(k) = <<>>
  BY <1>3 DEF Owed, Unsent
<1>7. ~(Intact' /\ m = 1) /\ (Intact' => Intact)
  <2>1. mux'[m] = k /\ \A v \in Muxes \ {m} : mux'[v] = mux[v]
    BY <1>1, <1>4
  <2>2. 1 \in Muxes
    BY StdioAssumption
  <2>3. ~(Intact' /\ m = 1)
    BY <1>3, <2>1 DEF Intact
  <2>4. m # 1 => (Intact' => Intact)
    BY <2>1, <2>2 DEF Intact
  <2> QED
    BY <2>3, <2>4
<1> QED
  BY <1>1, <1>2, <1>3, <1>4, <1>5, <1>6, <1>7, QuietStep, ZenonT(30) DEF o

LEMMA ReadFailsStep ==
    ASSUME StdioInv, NEW m \in Muxes, MuxReadFails(m)
    PROVE  StdioInv'
<1> DEFINE o == mux[m]
           k == [o EXCEPT !.read = "failed", !.broken = TRUE]
<1>1. MuxInv(o) /\ mux \in [Muxes -> MuxType] /\ \A v \in Muxes : v < m /\ o.state # "none" => mux[v].broken
  BY ZenonT(30) DEF StdioInv, InTurn
<1>2. o \in MuxType /\ o.state = "up" /\ UNCHANGED <<link, stdio, delivered, submitted>>
  BY <1>1 DEF MuxInv, MuxReadFails
<1>3. mux' = [mux EXCEPT ![m] = k]
  BY <1>1, ZenonT(30) DEF MuxReadFails
<1> HIDE DEF o
<1>4. /\ k \in MuxType /\ k.outbox = o.outbox /\ k.posted = o.posted /\ k.write = o.write
      /\ k.state = o.state /\ k.broken /\ k.read = "failed"
  BY <1>2, ZenonT(30) DEF MuxType
<1> HIDE DEF k
<1>5. MuxInv(k)
  BY <1>1, <1>2, <1>4 DEF MuxInv
<1>6. Owed(k) = Owed(o) /\ Unsent(k) = <<>>
  BY <1>4 DEF Owed, Unsent
<1>7. ~(Intact' /\ m = 1) /\ (Intact' => Intact)
  <2>1. mux'[m] = k /\ \A v \in Muxes \ {m} : mux'[v] = mux[v]
    BY <1>1, <1>3
  <2>2. 1 \in Muxes
    BY StdioAssumption
  <2>3. ~(Intact' /\ m = 1)
    BY <1>4, <2>1 DEF Intact
  <2>4. m # 1 => (Intact' => Intact)
    BY <1>2, <2>1, <2>2 DEF Intact
  <2> QED
    BY <2>3, <2>4
<1> QED
  BY <1>1, <1>2, <1>3, <1>4, <1>5, <1>6, <1>7, QuietStep, ZenonT(30) DEF o

LEMMA AddClientStep ==
    ASSUME StdioInv, NEW m \in Muxes, AddClient(m)
    PROVE  StdioInv'
<1> DEFINE o == mux[m]
           k == [o EXCEPT !.client = "yes"]
<1>1. MuxInv(o) /\ mux \in [Muxes -> MuxType] /\ \A v \in Muxes : v < m /\ o.state # "none" => mux[v].broken
  BY ZenonT(30) DEF StdioInv, InTurn
<1>2. o \in MuxType /\ o.state = "up" /\ UNCHANGED <<link, stdio, delivered, submitted>>
  BY <1>1 DEF MuxInv, AddClient
<1>3. mux' = [mux EXCEPT ![m] = k]
  BY <1>1 DEF AddClient
<1> HIDE DEF o
<1>4. /\ k \in MuxType /\ k.outbox = o.outbox /\ k.posted = o.posted /\ k.write = o.write
      /\ k.state = o.state /\ k.broken = o.broken /\ k.read = o.read
  BY <1>2 DEF MuxType
<1> HIDE DEF k
<1>5. MuxInv(k)
  BY <1>1, <1>2, <1>4, ZenonT(30) DEF MuxInv
<1>6. Owed(k) = Owed(o) /\ Unsent(k) = Unsent(o)
  BY <1>4 DEF Owed, Unsent
<1>7. Intact' => Intact
  <2>1. mux'[m] = k /\ \A v \in Muxes \ {m} : mux'[v] = mux[v]
    BY <1>1, <1>3
  <2>2. 1 \in Muxes
    BY StdioAssumption
  <2> QED
    BY <1>2, <1>4, <2>1, <2>2 DEF Intact, o
<1> QED
  BY <1>1, <1>2, <1>3, <1>4, <1>5, <1>6, <1>7, QuietStep, ZenonT(30) DEF o

LEMMA AcceptStep ==
    ASSUME StdioInv, NEW m \in Muxes, Accept(m)
    PROVE  StdioInv'
<1>1. /\ mux[m] = NoMux /\ mux[m].state = "none" /\ mux' = [mux EXCEPT ![m] = NewMux]
      /\ (m > 1 => mux[m - 1].broken) /\ mux \in [Muxes -> MuxType]
      /\ UNCHANGED <<link, stdio, delivered, submitted>>
  BY ZenonT(30) DEF Accept, StdioInv, MuxInv
<1>2. /\ NewMux.state = "up" /\ NewMux.outbox = <<>> /\ NewMux.posted = <<>> /\ NewMux.write = "none"
      /\ ~NoMux.broken /\ NoMux.outbox = <<>> /\ NoMux.posted = <<>> /\ NoMux.write = "none"
      /\ NewMux.broken = FALSE
  BY DEF NewMux, NoMux
<1>3. MuxInv(NewMux)
  <2>1. NewMux \in MuxType
    BY NoneIn, ZenonT(30) DEF NewMux, NoMux, MuxType
  <2> QED
    BY <1>2, <2>1 DEF MuxInv
<1>4. Owed(NewMux) = Owed(mux[m]) /\ Unsent(NewMux) = Unsent(mux[m])
  BY <1>1, <1>2 DEF Owed, Unsent
<1>5. ASSUME NEW v \in Muxes, v < m PROVE mux[v].broken
  <2>1. m \in Nat /\ v \in Nat \ {0} /\ m > 1 /\ m - 1 \in Muxes
    <3>1. m \in Nat /\ v \in Nat \ {0} /\ 1 .. m \subseteq Muxes
      BY StdioAssumption
    <3>2. m > 1 /\ m - 1 \in 1 .. m
      BY <1>5, <3>1
    <3> QED
      BY <3>1, <3>2
  <2>2. mux[m - 1].broken /\ mux[m - 1].state # "none"
    <3>1. mux[m - 1].broken
      BY <1>1, <2>1
    <3>2. MuxInv(mux[m - 1])
      BY <2>1, ZenonT(30) DEF StdioInv
    <3> QED
      BY <1>2, <3>1, <3>2 DEF MuxInv
  <2>3. CASE v = m - 1
    BY <2>2, <2>3
  <2>4. CASE v # m - 1
    <3>1. v < m - 1
      BY <1>5, <2>1, <2>4
    <3> QED
      BY <2>1, <2>2, <3>1, ZenonT(30) DEF StdioInv, InTurn
  <2> QED
    BY <2>3, <2>4
<1>6. Intact' => Intact
  <2>1. \A v \in Muxes \ {m} : mux'[v] = mux[v]
    BY <1>1
  <2>2. 1 \in Muxes
    BY StdioAssumption
  <2>3. m = 1 => stdio.mux # 1
    BY <1>1 DEF StdioInv
  <2> QED
    BY <1>1, <2>1, <2>2, <2>3 DEF Intact
<1> QED
  BY <1>1, <1>2, <1>3, <1>4, <1>5, <1>6, QuietStep, ZenonT(30)

LEMMA BeforeOne ==
    ASSUME NEW s, NEW e
    PROVE  Before(s, <<e>>) <=> \A i \in DOMAIN s : s[i].link = e.link => s[i].n < e.n
<1>1. DOMAIN <<e>> = {1} /\ <<e>>[1] = e
  OBVIOUS
<1> QED
  BY <1>1 DEF Before

LEMMA BeforeHead ==
    ASSUME NEW t, NEW s \in Seq(Entries), s # <<>>, Before(t, s)
    PROVE  Before(t, <<Head(s)>>)
<1>1. 1 \in DOMAIN s /\ Head(s) = s[1]
  BY Front
<1> QED
  BY <1>1, BeforeOne DEF Before

\* A message that was not read yet comes after all that was read.
LEMMA BeforeNew ==
    ASSUME NEW s \in Seq(Entries), NEW lk, Read(s, lk), NEW e,
           lk[e.link].n \in Nat, e.n = lk[e.link].n + 1
    PROVE  Before(s, <<e>>)
<1>1. \A i \in DOMAIN s : s[i] \in Entries
  OBVIOUS
<1>2. \A i \in DOMAIN s : s[i].n \in Nat
  BY <1>1 DEF Entries
<1>3. \A i \in DOMAIN s : s[i].link = e.link => s[i].n < e.n
  BY <1>2 DEF Read
<1> QED
  BY <1>3, BeforeOne

LEMMA UnsentOf ==
    ASSUME NEW k, MuxInv(k)
    PROVE  /\ Owed(k) = <<>> => Unsent(k) = <<>>
           /\ \A lk : Read(Owed(k), lk) => Read(Unsent(k), lk)
           /\ k.state = "none" => Owed(k) = <<>> /\ Unsent(k) = <<>>
<1>1. /\ Owed(k) \in Seq(Entries) /\ (k.write = "ok" => Owed(k) # <<>>)
      /\ Unsent(k) \in {<<>>, Owed(k)} \/ (k.write = "ok" /\ Unsent(k) = Tail(Owed(k)))
  BY MuxSeqs DEF MuxInv
<1>2. Owed(k) = <<>> => Unsent(k) = <<>>
  BY <1>1
<1>3. ASSUME NEW lk, Read(Owed(k), lk) PROVE Read(Unsent(k), lk)
  <2>1. Read(<<>>, lk)
    BY NoneIn DEF Read
  <2> QED
    BY <1>1, <1>3, <2>1, ReadFront, ZenonT(30)
<1>4. k.state = "none" => Owed(k) = <<>>
  <2>1. NoMux.outbox = <<>> /\ NoMux.posted = <<>>
    BY DEF NoMux
  <2>2. Owed(NoMux) = <<>>
    BY <2>1, NoneIn, Joins DEF Owed
  <2> QED
    BY <2>2 DEF MuxInv
<1> QED
  BY <1>2, <1>3, <1>4

\* A message is written.
LEMMA WriteOkStep ==
    ASSUME StdioInv, NEW m \in Muxes, mux[m].write = "pending", ~mux[m].broken,
           mux' = [mux EXCEPT ![m] = [mux[m] EXCEPT !.write = "ok"]],
           delivered' = Append(delivered, Head(mux[m].outbox)),
           UNCHANGED <<link, stdio, submitted>>
    PROVE  StdioInv'
<1> DEFINE o == mux[m]
           k == [o EXCEPT !.write = "ok"]
           h == Head(o.outbox)
           s == Owed(o)
<1>1. /\ MuxInv(o) /\ mux \in [Muxes -> MuxType] /\ delivered \in Seq(Entries)
      /\ \A v \in Muxes : MuxInv(mux[v])
  BY DEF StdioInv
<1>2. mux' = [mux EXCEPT ![m] = k] /\ o.write = "pending" /\ ~o.broken /\ delivered' = Append(delivered, h)
  OBVIOUS
<1>3. \A v \in Muxes : v # m => Unsent(mux[v]) = <<>>
  <2> SUFFICES ASSUME NEW v \in Muxes, v # m PROVE Unsent(mux[v]) = <<>>
    OBVIOUS
  <2>1. v < m \/ m < v
    BY StdioAssumption
  <2>2. CASE v < m
    <3>1. o.state # "none"
      BY <1>1, <1>2, IsUp
    <3>2. mux[v].broken
      BY <2>2, <3>1 DEF StdioInv, InTurn
    <3> QED
      BY <1>1, <3>2, MuxSeqs
  <2>3. CASE m < v
    <3>1. mux[v].state = "none"
      BY <1>2, <2>3 DEF StdioInv, InTurn
    <3> QED
      BY <1>1, <3>1, UnsentOf
  <2> QED
    BY <2>1, <2>2, <2>3
<1>4. stdio.mux # 0 => mux[stdio.mux].state # "none"
  BY DEF StdioInv
<1> HIDE DEF o
<1>5. o \in MuxType /\ o.state = "up" /\ o.outbox # <<>>
  BY <1>1, <1>2, IsUp DEF MuxInv
<1>6. /\ k \in MuxType /\ k.outbox = o.outbox /\ k.posted = o.posted /\ k.write = "ok"
      /\ k.state = o.state /\ ~k.broken /\ k.read = o.read
  BY <1>2, <1>5, ZenonT(30) DEF MuxType
<1> HIDE DEF k
<1>7. MuxInv(k)
  BY <1>5, <1>6 DEF MuxInv
<1>8. Owed(k) = s
  BY <1>6 DEF Owed
<1> HIDE DEF s
<1>9. /\ s \in Seq(Entries) /\ s # <<>> /\ h = Head(s) /\ Unsent(o) = s
      /\ Unsent(k) = Tail(s) /\ h \in Entries /\ Tail(s) \in Seq(Entries)
  <2>1. s \in Seq(Entries) /\ s # <<>> /\ h = Head(s) /\ Unsent(o) = s
    BY <1>1, <1>2, <1>5, MuxSeqs DEF s
  <2>2. Unsent(k) = Tail(s)
    BY <1>6, <1>7, <1>8, MuxSeqs
  <2> QED
    BY <2>1, <2>2, Front
<1> HIDE DEF h
<1>10. mux'[m] = k /\ \A v \in Muxes \ {m} : mux'[v] = mux[v]
  BY <1>1, <1>2
<1>11. \A v \in Muxes : v # m => Unsent(mux'[v]) = <<>>
  BY <1>3, <1>10
<1>12. stdio.drained /\ stdio.held = <<>>
  BY <1>9 DEF StdioInv, s, o
<1>13. Calls(link', mux')
  <2>1. \A v \in Muxes : Owed(mux'[v]) = Owed(mux[v])
    BY <1>8, <1>10 DEF s, o
  <2> QED
    BY <2>1, ZenonT(30) DEF StdioInv, Calls
<1>14. Ordered(mux', delivered', stdio'.held)
  <2>1. Rising(delivered) /\ Rising(s) /\ Before(delivered, s)
    BY <1>9 DEF StdioInv, Ordered, o
  <2>2. Rising(delivered')
    <3>1. Before(delivered, <<h>>)
      BY <1>9, <2>1, BeforeHead
    <3> QED
      BY <1>1, <1>2, <1>9, <2>1, <3>1, BeforeOne, RisingLast, ZenonT(30)
  <2>3. Rising(Tail(s)) /\ Before(delivered', Tail(s))
    <3>1. Rising(Tail(s)) /\ Before(<<h>>, Tail(s)) /\ Before(delivered, Tail(s))
      BY <1>9, <2>1, RisingFront, BeforeFront
    <3> QED
      BY <1>1, <1>2, <1>9, <3>1, BeforeLast
  <2>4. stdio'.held = <<>>
    BY <1>12
  <2>5. ASSUME NEW v \in Muxes
        PROVE  /\ Rising(Unsent(mux'[v])) /\ Before(delivered', Unsent(mux'[v]))
               /\ Before(Unsent(mux'[v]), stdio'.held)
    BY <1>9, <1>10, <1>11, <2>3, <2>4, NoneBefore, NoneCarried, ZenonT(30)
  <2>6. ASSUME NEW v \in Muxes, NEW w \in Muxes, v < w
        PROVE  Before(Unsent(mux'[v]), Unsent(mux'[w]))
    <3>1. v # w
      BY <2>6, StdioAssumption
    <3> QED
      BY <1>11, <3>1, NoneBefore
  <2> QED
    BY <2>2, <2>4, <2>5, <2>6, NoneBefore, NoneCarried, ZenonT(30) DEF Ordered
<1>15. ASSUME Intact' PROVE Complete(link', mux', delivered', stdio'.held)
  <2>1. m = 1
    <3>1. m # 1 => mux'[1] = mux[1] /\ 1 \in Muxes /\ 1 < m
      BY <1>10, StdioAssumption
    <3>2. m # 1 => mux[1].broken
      BY <1>5, <3>1 DEF StdioInv, InTurn, o
    <3> QED
      BY <1>15, <3>1, <3>2 DEF Intact
  <2>2. Intact
    BY <1>2, <1>5, <1>6, <1>10, <1>15, <2>1 DEF Intact, o
  <2>3. Complete(link, mux, delivered, stdio.held)
    BY <2>2 DEF StdioInv
  <2>4. ASSUME NEW l \in Links, NEW n \in 1 .. link'[l].n
        PROVE  Among(l, n, delivered') \/ Among(l, n, Unsent(mux'[1])) \/ Among(l, n, stdio'.held)
    <3>1. Among(l, n, delivered) \/ Among(l, n, s) \/ Among(l, n, stdio'.held)
      BY <1>9, <2>1, <2>3 DEF Complete, o
    <3>2. Among(l, n, s) => Among(l, n, Tail(s)) \/ (h.link = l /\ h.n = n)
      BY <1>9, AmongFront
    <3>3. Among(l, n, delivered') <=> Among(l, n, delivered) \/ (h.link = l /\ h.n = n)
      BY <1>1, <1>2, <1>9, AmongLast
    <3>4. Unsent(mux'[1]) = Tail(s)
      BY <1>9, <1>10, <2>1, ZenonT(30)
    <3> QED
      BY <3>1, <3>2, <3>3, <3>4, ZenonT(30)
  <2> QED
    BY <2>4 DEF Complete
<1>16. mux' \in [Muxes -> MuxType] /\ \A v \in Muxes : MuxInv(mux'[v])
  BY <1>1, <1>2, <1>6, <1>7, <1>10
<1>17. delivered' \in Seq(Entries) /\ Read(delivered', link')
  <2>1. Read(s, link) /\ Read(delivered, link)
    BY DEF StdioInv, s, o
  <2>2. h.n <= link[h.link].n
    BY <1>9, <2>1, ReadFront
  <2> QED
    BY <1>1, <1>2, <1>9, <2>1, <2>2, Last, ReadLast
<1>18. \A v \in Muxes : Read(Owed(mux'[v]), link')
  BY <1>8, <1>10 DEF StdioInv, s, o
<1>19. InTurn(mux')
  BY <1>2, <1>5, <1>6, <1>10, InTurnStep, ZenonT(30) DEF StdioInv, InTurn, o
<1>20. stdio'.mux # 0 => mux'[stdio'.mux].state # "none"
  <2>1. stdio.mux # 0 => stdio.mux \in Muxes
    BY DEF StdioInv, StdioType
  <2> QED
    BY <1>4, <1>5, <1>6, <1>10, <2>1, ZenonT(30)
<1>21. /\ link' \in [Links -> LinkType] /\ stdio' \in StdioType /\ submitted' \in BOOLEAN
       /\ \A i \in DOMAIN stdio'.held : ~stdio'.held[i].callback
       /\ stdio'.drained => stdio'.held = <<>>
       /\ stdio'.drained
       /\ Read(stdio'.held, link')
       /\ submitted' => stdio'.mux # 0
  BY <1>12 DEF StdioInv
<1> HIDE DEF StdioInv
<1> QED
  BY <1>13, <1>14, <1>15, <1>16, <1>17, <1>18, <1>19, <1>20, <1>21, Zenon DEF StdioInv

LEMMA WriteCompletesStep ==
    ASSUME StdioInv, NEW m \in Muxes, MuxWriteCompletes(m)
    PROVE  StdioInv'
<1>1. mux \in [Muxes -> MuxType]
  BY DEF StdioInv
<1>2. CASE /\ ~mux[m].broken /\ mux' = [mux EXCEPT ![m].write = "ok"]
           /\ delivered' = Append(delivered, Head(mux[m].outbox))
  <2>1. mux' = [mux EXCEPT ![m] = [mux[m] EXCEPT !.write = "ok"]]
    BY <1>1, <1>2
  <2> QED
    BY <1>2, <2>1, WriteOkStep, ZenonT(30) DEF MuxWriteCompletes
<1>3. CASE mux' = [mux EXCEPT ![m].write = "failed", ![m].broken = TRUE] /\ UNCHANGED delivered
  <2>1. mux' = [mux EXCEPT ![m] = [mux[m] EXCEPT !.write = "failed", !.broken = TRUE]]
    BY <1>1, <1>3, ZenonT(30)
  <2> QED
    BY <1>3, <2>1, WriteFailsStep, ZenonT(30) DEF MuxWriteCompletes
<1> QED
  BY <1>2, <1>3 DEF MuxWriteCompletes

\* The job reaches another connection, or its output is given up.
LEMMA TurnStep ==
    ASSUME StdioInv, stdio' \in StdioType, stdio'.held = stdio.held, stdio'.drained = stdio.drained,
           stdio'.mux # 0 => mux[stdio'.mux].state # "none", submitted => stdio'.mux # 0, ~Intact',
           UNCHANGED <<link, mux, delivered, submitted>>
    PROVE  StdioInv'
<1>1. /\ link' \in [Links -> LinkType] /\ mux' \in [Muxes -> MuxType]
      /\ delivered' \in Seq(Entries) /\ submitted' \in BOOLEAN
      /\ Calls(link', mux') /\ Ordered(mux', delivered', stdio'.held)
  BY ZenonT(30) DEF StdioInv
<1>2. /\ \A m \in Muxes : MuxInv(mux'[m])
      /\ \A i \in DOMAIN stdio'.held : ~stdio'.held[i].callback
      /\ stdio'.drained => stdio'.held = <<>>
      /\ ~stdio'.drained => delivered' = <<>> /\ \A m \in Muxes : Owed(mux'[m]) = <<>>
  BY ZenonT(30) DEF StdioInv
<1>3. /\ Read(delivered', link') /\ Read(stdio'.held, link')
      /\ \A m \in Muxes : Read(Owed(mux'[m]), link')
      /\ InTurn(mux') /\ (stdio'.mux # 0 => mux'[stdio'.mux].state # "none")
      /\ submitted' => stdio'.mux # 0
  BY ZenonT(30) DEF StdioInv
<1> HIDE DEF StdioInv
<1> QED
  BY <1>1, <1>2, <1>3, Zenon DEF StdioInv

LEMMA SetConnectionStep ==
    ASSUME StdioInv, NEW m \in Muxes, SetConnection(m)
    PROVE  StdioInv'
<1>1. /\ mux[m].state = "up" /\ (submitted => m # 1)
      /\ stdio' = [stdio EXCEPT !.mux = m, !.set = stdio.set \cup {m}]
      /\ UNCHANGED <<link, mux, delivered, submitted>>
  BY DEF SetConnection
<1>2. stdio \in StdioType /\ (submitted => stdio.mux # 0)
  BY ZenonT(30) DEF StdioInv
<1>3. /\ stdio' \in StdioType /\ stdio'.held = stdio.held /\ stdio'.drained = stdio.drained
      /\ stdio'.mux = m
  BY <1>1, <1>2 DEF StdioType
<1>4. ~Intact'
  BY <1>1, <1>3 DEF Intact
<1>5. m # 0
  BY StdioAssumption
<1> QED
  BY <1>1, <1>3, <1>4, <1>5, TurnStep

LEMMA StopOutputStep ==
    ASSUME StdioInv, StopOutput
    PROVE  StdioInv'
<1>1. stdio' = [stdio EXCEPT !.dropping = TRUE] /\ UNCHANGED <<link, mux, delivered, submitted>>
  BY DEF StopOutput
<1>2. /\ stdio \in StdioType /\ (submitted => stdio.mux # 0)
      /\ stdio.mux # 0 => mux[stdio.mux].state # "none"
  BY ZenonT(30) DEF StdioInv
<1>3. /\ stdio' \in StdioType /\ stdio'.held = stdio.held /\ stdio'.drained = stdio.drained
      /\ stdio'.mux = stdio.mux /\ stdio'.dropping
  BY <1>1, <1>2, ZenonT(30) DEF StdioType
<1>4. ~Intact'
  BY <1>3 DEF Intact
<1> QED
  BY <1>1, <1>2, <1>3, <1>4, TurnStep

\* The output that was held goes to the connection.
LEMMA TransitionStep ==
    ASSUME StdioInv, TransitionRun
    PROVE  StdioInv'
<1> DEFINE m == stdio.mux
           o == mux[m]
           k == [o EXCEPT !.posted = o.posted \o stdio.held]
           s == stdio.held
<1>1. /\ ~stdio.drained /\ m # 0 /\ o.state = "up"
      /\ stdio' = [stdio EXCEPT !.drained = TRUE, !.held = <<>>]
      /\ UNCHANGED <<link, delivered, submitted>>
  BY DEF TransitionRun, Alive
<1>2. /\ stdio \in StdioType /\ mux \in [Muxes -> MuxType] /\ \A v \in Muxes : MuxInv(mux[v])
      /\ Rising(s) /\ Read(s, link) /\ \A i \in DOMAIN s : ~s[i].callback
  BY ZenonT(30) DEF StdioInv, Ordered
<1>3. m \in Muxes /\ s \in Seq(Entries)
  BY <1>1, <1>2 DEF StdioType
<1>4. mux' = [mux EXCEPT ![m] = k]
  BY <1>2, <1>3 DEF TransitionRun, drain
<1>5. delivered = <<>> /\ \A v \in Muxes : Owed(mux[v]) = <<>>
  BY <1>1 DEF StdioInv
<1>6. \A v \in Muxes : Unsent(mux[v]) = <<>>
  BY <1>2, <1>5, UnsentOf, ZenonT(30)
<1>7. /\ stdio' \in StdioType /\ stdio'.drained /\ stdio'.held = <<>> /\ stdio'.mux = m
      /\ stdio'.dropping = stdio.dropping
  BY <1>1, <1>2, NoneIn, ZenonT(30) DEF StdioType
<1>8. Calls(link, mux) /\ InTurn(mux) /\ (Intact => Complete(link, mux, delivered, s))
  BY ZenonT(30) DEF StdioInv
<1> HIDE DEF m
<1>9. MuxInv(o) /\ o \in MuxType /\ o.outbox = <<>> /\ o.posted = <<>> /\ o.write = "none"
  <2>1. MuxInv(o) /\ Owed(o) = <<>>
    BY <1>2, <1>3, <1>5
  <2> HIDE DEF o
  <2>2. o.outbox = <<>> /\ o.posted = <<>>
    BY <2>1, MuxSeqs
  <2> QED
    BY <2>1, <2>2 DEF MuxInv
<1> HIDE DEF o, s
<1>10. o.posted \o stdio.held = s
  BY <1>3, <1>9, NoneIn, Joins DEF s
<1>11. /\ k \in MuxType /\ k.outbox = <<>> /\ k.posted = s /\ k.write = "none"
       /\ k.state = o.state /\ k.broken = o.broken /\ k.read = o.read
  BY <1>3, <1>9, <1>10 DEF MuxType
<1> HIDE DEF k
<1>12. MuxInv(k)
  BY <1>1, <1>11 DEF MuxInv
<1>13. Owed(k) = s /\ Unsent(k) = IF k.broken THEN <<>> ELSE s
  <2>1. Owed(k) = s
    BY <1>3, <1>11, NoneIn, Joins DEF Owed
  <2> QED
    BY <1>11, <1>12, <2>1, MuxSeqs
<1>14. mux'[m] = k /\ \A v \in Muxes \ {m} : mux'[v] = mux[v]
  BY <1>2, <1>3, <1>4
<1>15. \A v \in Muxes : v # m => Unsent(mux'[v]) = <<>> /\ Owed(mux'[v]) = <<>>
  BY <1>5, <1>6, <1>14
<1>16. Calls(link', mux')
  <2>1. \A l \in Links : ~Carries(Owed(k), l) /\ CarriesOne(Owed(k), l)
    BY <1>2, <1>13, CarriesSilent
  <2>2. \A l \in Links, v \in Muxes : ~Carries(Owed(mux'[v]), l) /\ CarriesOne(Owed(mux'[v]), l)
    BY <1>14, <1>15, <2>1, NoneCarried
  <2>3. \A l \in Links : ~link[l].away
    BY <1>5, <1>8, NoneCarried DEF Calls
  <2> QED
    BY <1>1, <2>2, <2>3 DEF Calls
<1>17. Ordered(mux', delivered', stdio'.held)
  <2>1. delivered' = <<>> /\ stdio'.held = <<>>
    BY <1>1, <1>5, <1>7
  <2>2. ASSUME NEW v \in Muxes PROVE Rising(Unsent(mux'[v]))
    BY <1>2, <1>13, <1>14, <1>15, NoneCarried
  <2>3. ASSUME NEW v \in Muxes, NEW w \in Muxes, v < w
        PROVE  Before(Unsent(mux'[v]), Unsent(mux'[w]))
    <3>1. v # w
      BY <2>3, StdioAssumption
    <3> QED
      BY <1>15, <3>1, NoneBefore
  <2> QED
    BY <2>1, <2>2, <2>3, NoneBefore, NoneCarried DEF Ordered
<1>18. ASSUME Intact' PROVE Complete(link', mux', delivered', stdio'.held)
  <2>1. m = 1 /\ Intact /\ Unsent(mux'[1]) = s
    <3>1. m = 1 /\ ~k.broken
      BY <1>7, <1>14, <1>18 DEF Intact
    <3>2. Intact
      BY <1>1, <1>7, <1>11, <1>14, <1>18, <3>1 DEF Intact, o
    <3> QED
      BY <1>13, <1>14, <3>1, <3>2
  <2>2. Complete(link, mux, delivered, s)
    BY <1>8, <2>1
  <2>3. \A l, n : ~Among(l, n, Unsent(mux[1]))
    BY <1>6, NoneIn, StdioAssumption DEF Among
  <2> QED
    BY <1>1, <2>1, <2>2, <2>3 DEF Complete
<1>19. mux' \in [Muxes -> MuxType] /\ \A v \in Muxes : MuxInv(mux'[v])
  BY <1>2, <1>4, <1>11, <1>12, <1>14, ZenonT(30)
<1>20. \A v \in Muxes : Read(Owed(mux'[v]), link')
  <2>1. Read(<<>>, link)
    BY NoneIn DEF Read
  <2> QED
    BY <1>1, <1>2, <1>13, <1>14, <1>15, <2>1
<1>21. InTurn(mux')
  BY <1>1, <1>3, <1>8, <1>11, <1>14, InTurnStep DEF InTurn, o
<1>22. /\ stdio'.mux # 0 => mux'[stdio'.mux].state # "none"
       /\ \A i \in DOMAIN stdio'.held : ~stdio'.held[i].callback
       /\ Read(stdio'.held, link') /\ Read(delivered', link')
       /\ submitted' => stdio'.mux # 0
  BY <1>1, <1>5, <1>7, <1>11, <1>14, NoneIn DEF Read
<1>23. link' \in [Links -> LinkType] /\ submitted' \in BOOLEAN /\ delivered' \in Seq(Entries)
  BY <1>1 DEF StdioInv
<1> HIDE DEF StdioInv
<1> QED
  BY <1>7, <1>16, <1>17, <1>18, <1>19, <1>20, <1>21, <1>22, <1>23, Zenon DEF StdioInv


\* The links lm have read what lk have, and message c of link l.
Grown(lk, lm, l, c) ==
    \A z \in Links : \A n \in 1 .. lm[z].n : n \in 1 .. lk[z].n \/ (z = l /\ n = c)

\* A link reads its next message.
LEMMA LinkGrows ==
    ASSUME link \in [Links -> LinkType], NEW l \in Links, NEW a \in BOOLEAN, NEW c, c = link[l].n + 1,
           link' = [link EXCEPT ![l] = [n |-> c, away |-> a]]
    PROVE  /\ link' \in [Links -> LinkType]
           /\ \A z \in Links : /\ link[z].n \in Nat /\ link'[z].n \in Nat /\ link[z].n <= link'[z].n
                               /\ z # l => link'[z].away = link[z].away
           /\ Grown(link, link', l, c)
           /\ link'[l].away = a /\ link'[l].n = c /\ c \in Nat \ {0}
<1>1. \A z \in Links : link[z].n \in Nat /\ link[z].away \in BOOLEAN
  BY DEF LinkType
<1>2. c \in Nat \ {0}
  BY <1>1
<1>3. link' \in [Links -> LinkType]
  BY <1>2 DEF LinkType
<1>4. link'[l].n = c /\ link'[l].away = a /\ \A z \in Links : z # l => link'[z] = link[z]
  OBVIOUS
<1>5. ASSUME NEW z \in Links
      PROVE  /\ link'[z].n \in Nat /\ link[z].n <= link'[z].n
             /\ \A n \in 1 .. link'[z].n : n \in 1 .. link[z].n \/ (z = l /\ n = c)
  <2>1. CASE z = l
    BY <1>1, <1>2, <1>4, <2>1
  <2>2. CASE z # l
    BY <1>1, <1>4, <2>2
  <2> QED
    BY <2>1, <2>2
<1> QED
  BY <1>1, <1>2, <1>3, <1>4, <1>5 DEF Grown

\* The output is dropped.
LEMMA DropStep ==
    ASSUME StdioInv, NEW l \in Links, ~link[l].away, NEW c, c = link[l].n + 1,
           link' = [link EXCEPT ![l] = [n |-> c, away |-> FALSE]],
           stdio.dropping \/ (stdio.drained /\ ~Alive(stdio.mux)),
           UNCHANGED <<stdio, mux, delivered, submitted>>
    PROVE  StdioInv'
<1>1. link \in [Links -> LinkType]
  BY ZenonT(30) DEF StdioInv
<1>2. /\ link' \in [Links -> LinkType]
      /\ \A z \in Links : link[z].n \in Nat /\ link'[z].n \in Nat /\ link[z].n <= link'[z].n
  BY <1>1, LinkGrows, ZenonT(30)
<1>3. \A z \in Links : link'[z].away <=> link[z].away
  BY <1>1, LinkGrows, ZenonT(30)
<1>4. Calls(link', mux')
  BY <1>3, ZenonT(30) DEF StdioInv, Calls
<1>5. ~Intact'
  BY DEF Intact, Alive
<1>6. delivered \in Seq(Entries) /\ stdio.held \in Seq(Entries) /\ \A m \in Muxes : Owed(mux[m]) \in Seq(Entries)
  BY MuxSeqs, ZenonT(30) DEF StdioInv, StdioType
<1>7. Read(delivered', link') /\ Read(stdio'.held, link') /\ \A m \in Muxes : Read(Owed(mux'[m]), link')
  BY <1>2, <1>6, ReadMore, ZenonT(30) DEF StdioInv
<1>8. /\ mux' \in [Muxes -> MuxType] /\ stdio' \in StdioType /\ Ordered(mux', delivered', stdio'.held)
      /\ delivered' \in Seq(Entries) /\ submitted' \in BOOLEAN /\ \A m \in Muxes : MuxInv(mux'[m])
  BY ZenonT(30) DEF StdioInv
<1>9. /\ \A i \in DOMAIN stdio'.held : ~stdio'.held[i].callback
      /\ stdio'.drained => stdio'.held = <<>>
      /\ ~stdio'.drained => delivered' = <<>> /\ \A m \in Muxes : Owed(mux'[m]) = <<>>
      /\ InTurn(mux') /\ (stdio'.mux # 0 => mux'[stdio'.mux].state # "none")
      /\ submitted' => stdio'.mux # 0
  BY ZenonT(30) DEF StdioInv
<1> HIDE DEF StdioInv
<1> QED
  BY <1>2, <1>4, <1>5, <1>7, <1>8, <1>9, Zenon DEF StdioInv

\* The output is held: the job does not run yet.
LEMMA HoldStep ==
    ASSUME StdioInv, NEW l \in Links, ~link[l].away, NEW c, c = link[l].n + 1,
           link' = [link EXCEPT ![l] = [n |-> c, away |-> FALSE]], ~stdio.drained,
           NEW e, e = [link |-> l, n |-> c, callback |-> FALSE],
           stdio' = [stdio EXCEPT !.held = Append(stdio.held, e)],
           UNCHANGED <<mux, delivered, submitted>>
    PROVE  StdioInv'
<1> DEFINE s == stdio.held
           t == Append(stdio.held, e)
<1>1. link \in [Links -> LinkType] /\ stdio \in StdioType /\ Rising(s) /\ Read(s, link)
  BY DEF StdioInv, Ordered
<1>2. /\ link' \in [Links -> LinkType] /\ c \in Nat \ {0} /\ link'[l].n = c
      /\ \A z \in Links : link[z].n \in Nat /\ link'[z].n \in Nat /\ link[z].n <= link'[z].n
      /\ Grown(link, link', l, c)
  BY <1>1, LinkGrows, ZenonT(30)
<1>3. \A z \in Links : link'[z].away <=> link[z].away
  BY <1>1, LinkGrows, ZenonT(30)
<1>4. e \in Entries /\ e.link = l /\ e.n = c /\ ~e.callback
  BY <1>2 DEF Entries
<1>5. s \in Seq(Entries) /\ s = stdio.held
  BY <1>1 DEF StdioType
<1> HIDE DEF s
<1>6. t \in Seq(Entries) /\ DOMAIN t = DOMAIN s \cup {Len(s) + 1} /\ t[Len(s) + 1] = e
  BY <1>4, <1>5, Last
<1>7. \A i \in DOMAIN s : t[i] = s[i]
  BY <1>4, <1>5, Last
<1>8. Rising(t)
  <2>1. Before(s, <<e>>)
    BY <1>1, <1>2, <1>4, <1>5, BeforeNew
  <2> QED
    BY <1>1, <1>4, <1>5, <2>1, BeforeOne, RisingLast
<1>9. Read(t, link')
  <2>1. Read(s, link')
    BY <1>1, <1>2, <1>5, ReadMore, ZenonT(30)
  <2>2. e.n <= link'[e.link].n
    BY <1>2, <1>4
  <2> QED
    BY <1>4, <1>5, <2>1, <2>2, ReadLast, ZenonT(30)
<1>10. \A z, n : Among(z, n, t) <=> Among(z, n, s) \/ (z = l /\ n = c)
  BY <1>4, <1>5, AmongLast
<1>11. ~\E i \in DOMAIN t : t[i].callback
  <2>1. \A i \in DOMAIN s : ~s[i].callback
    BY <1>5 DEF StdioInv
  <2> HIDE DEF t
  <2> QED
    BY <1>4, <1>6, <1>7, <2>1
<1> HIDE DEF t
<1>12. /\ stdio' \in StdioType /\ stdio'.held = t /\ stdio'.drained = stdio.drained
       /\ stdio'.mux = stdio.mux /\ stdio'.dropping = stdio.dropping
  BY <1>1, <1>6, ZenonT(30) DEF StdioType, t
<1>13. Calls(link', mux')
  BY <1>3 DEF StdioInv, Calls
<1>14. /\ delivered = <<>> /\ \A m \in Muxes : MuxInv(mux[m]) /\ Owed(mux[m]) = <<>>
  BY DEF StdioInv
<1>15. \A m \in Muxes : Unsent(mux[m]) = <<>>
  BY <1>14, UnsentOf
<1>16. Ordered(mux', delivered', stdio'.held)
  BY <1>8, <1>12, <1>14, <1>15, NoneBefore, NoneCarried, ZenonT(30) DEF Ordered
<1>17. ASSUME Intact' PROVE Complete(link', mux', delivered', stdio'.held)
  <2>1. Intact
    BY <1>12, <1>17 DEF Intact
  <2>2. Complete(link, mux, delivered, s)
    BY <1>5, <2>1 DEF StdioInv
  <2> QED
    BY <1>2, <1>10, <1>12, <2>2, ZenonT(30) DEF Complete, Grown
<1>18. Read(delivered', link') /\ \A m \in Muxes : Read(Owed(mux'[m]), link')
  BY <1>14, NoneIn DEF Read
<1>19. /\ mux' \in [Muxes -> MuxType] /\ delivered' \in Seq(Entries) /\ submitted' \in BOOLEAN
       /\ \A m \in Muxes : MuxInv(mux'[m]) /\ Owed(mux'[m]) = <<>>
       /\ delivered' = <<>> /\ ~stdio'.drained
  BY <1>12, <1>14 DEF StdioInv
<1>20. /\ InTurn(mux') /\ (stdio'.mux # 0 => mux'[stdio'.mux].state # "none")
       /\ submitted' => stdio'.mux # 0
       /\ \A i \in DOMAIN stdio'.held : ~stdio'.held[i].callback
  BY <1>11, <1>12 DEF StdioInv
<1>21. Read(stdio'.held, link')
  BY <1>9, <1>12, ZenonT(30)
<1> HIDE DEF StdioInv
<1> QED
  BY <1>2, <1>12, <1>13, <1>16, <1>17, <1>18, <1>19, <1>20, <1>21, Zenon DEF StdioInv


LEMMA Posts ==
    ASSUME NEW s \in Seq(Entries), NEW t \in Seq(Entries), NEW e \in Entries
    PROVE  s \o Append(t, e) = Append(s \o t, e)
  BY JoinLast

LEMMA HeldPosted ==
    ASSUME NEW k, MuxInv(k), k.state = "up", NEW e \in Entries,
           NEW j, j = [k EXCEPT !.posted = Append(k.posted, e)]
    PROVE  /\ MuxInv(j) /\ j.state = "up" /\ j.broken = k.broken /\ j.read = k.read
           /\ Owed(j) = Append(Owed(k), e)
           /\ Unsent(j) = IF k.broken THEN <<>> ELSE Append(Unsent(k), e)
<1>1. /\ k \in MuxType /\ k.outbox \in Seq(Entries) /\ k.posted \in Seq(Entries)
      /\ k.write = "ok" => k.outbox # <<>>
  BY MuxSeqs DEF MuxInv
<1>2. Append(k.posted, e) \in Seq(Entries)
  BY <1>1
<1>3. /\ j \in MuxType /\ j.outbox = k.outbox /\ j.posted = Append(k.posted, e) /\ j.write = k.write
      /\ j.state = k.state /\ j.broken = k.broken /\ j.read = k.read
  BY <1>1, <1>2, ZenonT(30) DEF MuxType
<1>4. MuxInv(j)
  BY <1>3 DEF MuxInv
<1>5. Owed(j) = Append(Owed(k), e)
  <2>1. k.outbox \o Append(k.posted, e) = Append(k.outbox \o k.posted, e)
    BY <1>1, Posts, ZenonT(30)
  <2> QED
    BY <1>3, <2>1, ZenonT(30) DEF Owed
<1>6. Unsent(j) = IF k.broken THEN <<>> ELSE Append(Unsent(k), e)
  <2>1. k.broken \in BOOLEAN
    BY <1>1 DEF MuxType
  <2>2. CASE k.broken
    BY <1>3, <2>2 DEF Unsent
  <2>3. CASE ~k.broken /\ k.write = "ok"
    <3>1. Unsent(j) = Tail(k.outbox) \o Append(k.posted, e) /\ Unsent(k) = Tail(k.outbox) \o k.posted
      BY <1>3, <2>3, ZenonT(30) DEF Unsent
    <3>2. Tail(k.outbox) \in Seq(Entries)
      BY <1>1, <2>3, Front
    <3>3. Tail(k.outbox) \o Append(k.posted, e) = Append(Tail(k.outbox) \o k.posted, e)
      BY <1>1, <3>2, Posts, ZenonT(30)
    <3> QED
      BY <2>3, <3>1, <3>3, ZenonT(30)
  <2>4. CASE ~k.broken /\ k.write # "ok"
    <3>1. Unsent(j) = Owed(j) /\ Unsent(k) = Owed(k)
      BY <1>3, <2>4 DEF Unsent
    <3> QED
      BY <1>5, <2>4, <3>1, ZenonT(30)
  <2> QED
    BY <2>1, <2>2, <2>3, <2>4
<1> QED
  BY <1>3, <1>4, <1>5, <1>6, ZenonT(30)

\* Message c of link l, which is e, goes to the connection with its callback.
Sends(l, c, e) ==
    /\ ~link[l].away /\ c = link[l].n + 1 /\ link' = [link EXCEPT ![l] = [n |-> c, away |-> TRUE]]
    /\ stdio.drained /\ Alive(stdio.mux) /\ e = [link |-> l, n |-> c, callback |-> TRUE]
    /\ mux' = [mux EXCEPT ![stdio.mux] = [mux[stdio.mux] EXCEPT !.posted = Append(mux[stdio.mux].posted, e)]]
    /\ UNCHANGED <<stdio, delivered, submitted>>

LEMMA SendStep ==
    ASSUME StdioInv, NEW l \in Links, NEW c, NEW e, Sends(l, c, e)
    PROVE  StdioInv'
<1> DEFINE m == stdio.mux
           o == mux[m]
           k == [o EXCEPT !.posted = Append(o.posted, e)]
           u == Unsent(o)
<1>1. /\ link \in [Links -> LinkType] /\ stdio \in StdioType /\ mux \in [Muxes -> MuxType]
      /\ delivered \in Seq(Entries) /\ Read(delivered, link) /\ stdio.held = <<>>
      /\ \A v \in Muxes : MuxInv(mux[v]) /\ Read(Owed(mux[v]), link)
  BY DEF StdioInv, Sends
<1>2. /\ link' \in [Links -> LinkType] /\ c \in Nat \ {0} /\ link'[l].n = c
      /\ \A z \in Links : link[z].n \in Nat /\ link'[z].n \in Nat /\ link[z].n <= link'[z].n
      /\ Grown(link, link', l, c)
  BY <1>1, LinkGrows, ZenonT(30) DEF Sends
<1>3. /\ \A z \in Links : z # l => link'[z].away = link[z].away
      /\ link'[l].away
  BY <1>1, LinkGrows DEF Sends
<1>4. e \in Entries /\ e.link = l /\ e.n = c /\ e.callback
  BY <1>2 DEF Entries, Sends
<1>5. m \in Muxes /\ o.state = "up" /\ mux' = [mux EXCEPT ![m] = k]
  BY <1>1 DEF StdioType, Alive, Sends
<1>6. MuxInv(o) /\ Read(Owed(o), link)
  BY <1>1, <1>5
<1>7. /\ ~link[l].away /\ c = link[l].n + 1 /\ UNCHANGED <<stdio, delivered, submitted>>
      /\ Calls(link, mux) /\ Ordered(mux, delivered, stdio.held) /\ InTurn(mux)
      /\ Intact => Complete(link, mux, delivered, stdio.held)
  BY DEF StdioInv, Sends
<1> HIDE DEF m
<1>8. \A z \in Links : Carries(Owed(o), z) => link[z].away
  BY <1>5, <1>7 DEF Calls
<1>9. /\ \A z \in Links : CarriesOne(Owed(o), z)
  BY <1>5, <1>7 DEF Calls
<1> HIDE DEF o
<1>10. /\ MuxInv(k) /\ k.state = "up" /\ k.broken = o.broken /\ k.read = o.read
       /\ Owed(k) = Append(Owed(o), e)
       /\ Unsent(k) = IF o.broken THEN <<>> ELSE Append(u, e)
  <2>1. k = [o EXCEPT !.posted = Append(o.posted, e)]
    OBVIOUS
  <2> HIDE DEF k
  <2> QED
    BY <1>4, <1>5, <1>6, <2>1, HeldPosted, Zenon
<1> HIDE DEF k
<1>11. mux'[m] = k /\ \A v \in Muxes \ {m} : mux'[v] = mux[v]
  BY <1>1, <1>5
<1>12. Owed(o) \in Seq(Entries) /\ u \in Seq(Entries) /\ o.broken \in BOOLEAN
  BY <1>6, MuxSeqs DEF MuxInv, MuxType
<1> HIDE DEF u
<1>13. Calls(link', mux')
  <2>1. ASSUME NEW z \in Links
        PROVE  /\ CarriesOne(Owed(k), z)
               /\ Carries(Owed(k), z) <=> Carries(Owed(o), z) \/ z = l
    <3>1. CallbackOf(e, z) <=> z = l
      BY <1>4 DEF CallbackOf
    <3> QED
      BY <1>4, <1>7, <1>8, <1>9, <1>10, <1>12, <3>1, CarriesLast
  <2>2. Takes(link, mux, link', mux', m, l)
    BY <1>3, <1>7, <1>11, <2>1, ZenonT(30) DEF Takes, o
  <2> QED
    BY <1>5, <1>7, <2>2, CallsAdd, ZenonT(30)
<1>14. Before(delivered, <<e>>) /\ \A v \in Muxes : Before(Unsent(mux[v]), <<e>>)
  <2>1. \A v \in Muxes : Read(Unsent(mux[v]), link) /\ Unsent(mux[v]) \in Seq(Entries)
    BY <1>1, UnsentOf, MuxSeqs, ZenonT(30)
  <2> QED
    BY <1>1, <1>2, <1>4, <1>7, <2>1, BeforeNew, ZenonT(30)
<1>15. Ordered(mux', delivered', stdio'.held)
  <2>1. Rising(Unsent(k)) /\ Before(delivered, Unsent(k))
    <3>1. Rising(u) /\ Before(delivered, u) /\ Before(u, <<e>>)
      BY <1>5, <1>7, <1>14, ZenonT(30) DEF Ordered, o, u
    <3>2. Rising(Append(u, e))
      BY <1>4, <1>12, <3>1, BeforeOne, RisingLast
    <3>3. Before(delivered, Append(u, e))
      BY <1>4, <1>12, <1>14, <3>1, BeforeLast
    <3> QED
      BY <1>10, <1>12, <3>2, <3>3, NoneBefore, NoneCarried
  <2>2. ASSUME NEW v \in Muxes
        PROVE  Rising(Unsent(mux'[v])) /\ Before(delivered, Unsent(mux'[v]))
    BY <1>7, <1>11, <2>1, ZenonT(30) DEF Ordered
  <2>3. ASSUME NEW v \in Muxes, NEW w \in Muxes, v < w
        PROVE  Before(Unsent(mux'[v]), Unsent(mux'[w]))
    <3>1. v # w /\ Before(Unsent(mux[v]), Unsent(mux[w]))
      BY <1>7, <2>3, StdioAssumption DEF Ordered
    <3>2. CASE v # m /\ w # m
      BY <1>11, <3>1, <3>2
    <3>3. CASE w = m
      <4>1. mux'[v] = mux[v] /\ mux'[w] = k /\ Unsent(mux[w]) = u
        BY <1>11, <3>1, <3>3 DEF o, u
      <4>2. Before(Unsent(mux[v]), Append(u, e))
        <5>1. Before(Unsent(mux[v]), u) /\ Before(Unsent(mux[v]), <<e>>)
          BY <1>14, <3>1, <4>1
        <5> QED
          BY <1>4, <1>12, <5>1, BeforeLast
      <4> QED
        BY <1>10, <1>12, <4>1, <4>2, NoneBefore, ZenonT(30)
    <3>4. CASE v = m
      <4>1. mux'[w] = mux[w] /\ mux'[v] = k /\ mux[v] = o
        BY <1>11, <3>1, <3>4 DEF o
      <4>2. CASE mux[w].state = "none"
        <5>1. Unsent(mux[w]) = <<>>
          BY <1>1, <4>2, UnsentOf
        <5> QED
          BY <4>1, <5>1, NoneBefore
      <4>3. CASE mux[w].state # "none"
        <5>1. o.broken
          BY <1>7, <2>3, <4>1, <4>3, ZenonT(30) DEF InTurn
        <5> QED
          BY <1>10, <4>1, <5>1, NoneBefore
      <4> QED
        BY <4>2, <4>3
    <3> QED
      BY <3>2, <3>3, <3>4
  <2>4. stdio'.held = <<>> /\ delivered' = delivered /\ Rising(delivered)
    BY <1>1, <1>7, ZenonT(30) DEF Ordered
  <2> QED
    BY <2>2, <2>3, <2>4, NoneBefore, NoneCarried, ZenonT(30) DEF Ordered
<1>16. ASSUME Intact' PROVE Complete(link', mux', delivered', stdio'.held)
  <2>1. m = 1 /\ ~o.broken
    BY <1>7, <1>10, <1>11, <1>16, ZenonT(30) DEF Intact, m
  <2>2. Intact
    BY <1>5, <1>7, <1>10, <1>11, <1>16, <2>1, ZenonT(30) DEF Intact, o
  <2>3. Complete(link, mux, delivered, stdio.held)
    BY <1>7, <2>2, ZenonT(30)
  <2>4. \A z, n : Among(z, n, Unsent(mux'[1])) <=> Among(z, n, Unsent(mux[1])) \/ (z = l /\ n = c)
    <3>1. Unsent(mux'[1]) = Append(u, e) /\ Unsent(mux[1]) = u
      BY <1>10, <1>11, <2>1 DEF o, u
    <3> QED
      BY <1>4, <1>12, <3>1, AmongLast
  <2> QED
    BY <1>2, <1>7, <2>3, <2>4, ZenonT(30) DEF Complete, Grown
<1>17. mux' \in [Muxes -> MuxType] /\ \A v \in Muxes : MuxInv(mux'[v])
  BY <1>1, <1>5, <1>10, <1>11, ZenonT(30) DEF MuxInv
<1>18. Read(delivered', link') /\ Read(stdio'.held, link')
  <2>1. Read(<<>>, link')
    BY NoneIn DEF Read
  <2> QED
    BY <1>1, <1>2, <1>7, <2>1, ReadMore, ZenonT(30)
<1>19. ASSUME NEW v \in Muxes PROVE Read(Owed(mux'[v]), link')
  <2>1. Read(Owed(mux[v]), link') /\ Owed(mux[v]) \in Seq(Entries)
    BY <1>1, <1>2, MuxSeqs, ReadMore, ZenonT(30)
  <2>2. CASE v = m
    <3>1. e.n <= link'[e.link].n
      BY <1>2, <1>4
    <3> QED
      BY <1>4, <1>10, <1>11, <2>1, <2>2, <3>1, ReadLast, ZenonT(30) DEF o
  <2>3. CASE v # m
    BY <1>11, <2>1, <2>3, ZenonT(30)
  <2> QED
    BY <2>2, <2>3
<1>20. InTurn(mux')
  BY <1>5, <1>7, <1>10, <1>11, InTurnStep, ZenonT(30) DEF InTurn, o
<1>21. /\ stdio' \in StdioType /\ delivered' \in Seq(Entries) /\ submitted' \in BOOLEAN
       /\ stdio'.held = <<>> /\ stdio'.drained
       /\ \A i \in DOMAIN stdio'.held : ~stdio'.held[i].callback
       /\ stdio'.mux # 0 => mux'[stdio'.mux].state # "none"
       /\ submitted' => stdio'.mux # 0
  BY <1>1, <1>7, <1>10, <1>11 DEF StdioInv, Sends, m
<1> HIDE DEF StdioInv
<1> QED
  BY <1>2, <1>13, <1>15, <1>16, <1>17, <1>18, <1>19, <1>20, <1>21, Zenon DEF StdioInv


LEMMA AddStep ==
    ASSUME StdioInv, NEW l \in Links, Add(l)
    PROVE  StdioInv'
<1> DEFINE c == link[l].n + 1
           hold == ~stdio.dropping /\ ~stdio.drained
           send == ~stdio.dropping /\ stdio.drained /\ Alive(stdio.mux)
           e == [link |-> l, n |-> c, callback |-> send]
<1>1. /\ ~link[l].away /\ UNCHANGED <<delivered, submitted>>
      /\ link' = [link EXCEPT ![l] = [n |-> c, away |-> send]]
      /\ stdio' = IF hold THEN [stdio EXCEPT !.held = Append(stdio.held, e)] ELSE stdio
      /\ mux' = IF send THEN [mux EXCEPT ![stdio.mux].posted = Append(mux[stdio.mux].posted, e)] ELSE mux
  BY DEF Add
<1>2. stdio \in StdioType /\ mux \in [Muxes -> MuxType]
  BY ZenonT(30) DEF StdioInv
<1>3. stdio.dropping \in BOOLEAN /\ stdio.drained \in BOOLEAN /\ (stdio.mux # 0 => stdio.mux \in Muxes)
  BY <1>2 DEF StdioType
<1>4. CASE hold
  <2>1. link' = [link EXCEPT ![l] = [n |-> c, away |-> FALSE]] /\ mux' = mux
    BY <1>1, <1>3, <1>4, ZenonT(30)
  <2>2. stdio' = [stdio EXCEPT !.held = Append(stdio.held, e)]
    <3> HIDE DEF e
    <3> QED
      BY <1>1, <1>4
  <2>3. e = [link |-> l, n |-> c, callback |-> FALSE]
    <3>1. send = FALSE
      BY <1>3, <1>4
    <3> HIDE DEF send, c
    <3> QED
      BY <3>1, ZenonT(30)
  <2> HIDE DEF c, e
  <2> QED
    BY <1>1, <1>4, <2>1, <2>2, <2>3, HoldStep, ZenonT(30) DEF c
<1>5. CASE send
  <2>1. link' = [link EXCEPT ![l] = [n |-> c, away |-> TRUE]] /\ stdio' = stdio
    BY <1>1, <1>3, <1>5, ZenonT(30)
  <2>2. mux' = [mux EXCEPT ![stdio.mux] = [mux[stdio.mux] EXCEPT !.posted = Append(mux[stdio.mux].posted, e)]]
    <3>1. stdio.mux \in Muxes
      BY <1>3, <1>5 DEF Alive
    <3> HIDE DEF e
    <3> QED
      BY <1>1, <1>2, <1>5, <3>1
  <2>3. e = [link |-> l, n |-> c, callback |-> TRUE]
    <3>1. send = TRUE
      BY <1>3, <1>5
    <3> HIDE DEF send, c
    <3> QED
      BY <3>1
  <2>4. Sends(l, c, e)
    <3> HIDE DEF e
    <3> QED
      BY <1>1, <1>5, <2>1, <2>2, <2>3, ZenonT(30) DEF Sends
  <2> HIDE DEF c, e
  <2> QED
    BY <2>4, SendStep
<1>6. CASE ~hold /\ ~send
  <2>1. link' = [link EXCEPT ![l] = [n |-> c, away |-> FALSE]] /\ mux' = mux /\ stdio' = stdio
    BY <1>1, <1>3, <1>6, ZenonT(30)
  <2>2. stdio.dropping \/ (stdio.drained /\ ~Alive(stdio.mux))
    BY <1>3, <1>6
  <2> HIDE DEF c
  <2> QED
    BY <1>1, <2>1, <2>2, DropStep, ZenonT(30) DEF c
<1> QED
  BY <1>4, <1>5, <1>6

LEMMA StdioInitially == StdioInit => StdioInv
<1> SUFFICES ASSUME StdioInit PROVE StdioInv
  OBVIOUS
<1> DEFINE first == [NewMux EXCEPT !.client = "yes"]
<1>1. /\ first.state = "up" /\ first.outbox = <<>> /\ first.posted = <<>> /\ first.write = "none"
      /\ ~first.broken /\ NoMux.outbox = <<>> /\ NoMux.posted = <<>> /\ NoMux.write = "none"
      /\ ~NoMux.broken /\ NoMux.state = "none"
  BY DEF NewMux, NoMux
<1>2. first \in MuxType /\ NoMux \in MuxType
  BY NoneIn, ZenonT(30) DEF NewMux, NoMux, MuxType
<1>3. /\ submitted \in BOOLEAN /\ delivered = <<>> /\ delivered \in Seq(Entries)
      /\ link = [l \in Links |-> [n |-> 0, away |-> FALSE]]
      /\ stdio = [drained |-> ~submitted, dropping |-> FALSE,
                  mux |-> IF submitted THEN 1 ELSE 0, set |-> {}, held |-> <<>>]
      /\ mux = [m \in Muxes |-> IF m = 1 /\ submitted THEN first ELSE NoMux]
  BY NoneIn DEF StdioInit
<1> HIDE DEF first
<1>4. link \in [Links -> LinkType] /\ \A l \in Links : link[l].n = 0 /\ ~link[l].away
  BY <1>3 DEF LinkType
<1>5. /\ stdio \in StdioType /\ stdio.held = <<>> /\ (stdio.mux # 0 => submitted /\ stdio.mux = 1)
      /\ submitted => stdio.mux # 0
  BY <1>3, NoneIn, StdioAssumption DEF StdioType
<1>6. mux \in [Muxes -> MuxType] /\ \A m \in Muxes : mux[m] = NoMux \/ (m = 1 /\ submitted /\ mux[m] = first)
  BY <1>2, <1>3
<1>7. submitted => mux[1].state # "none"
  BY <1>1, <1>3, StdioAssumption
<1>8. MuxInv(NoMux) /\ MuxInv(first)
  BY <1>1, <1>2 DEF MuxInv
<1>9. Owed(NoMux) = <<>> /\ Owed(first) = <<>>
  BY <1>1, NoneIn, Joins DEF Owed
<1>10. \A m \in Muxes : MuxInv(mux[m]) /\ Owed(mux[m]) = <<>>
  BY <1>6, <1>8, <1>9
<1>11. \A m \in Muxes : Unsent(mux[m]) = <<>>
  BY <1>10, UnsentOf
<1>12. Calls(link, mux)
  BY <1>4, <1>10, NoneCarried, ZenonT(30) DEF Calls
<1>13. Ordered(mux, delivered, stdio.held)
  BY <1>3, <1>5, <1>11, NoneCarried, NoneBefore DEF Ordered
<1>14. Complete(link, mux, delivered, stdio.held)
  <2>1. \A l \in Links : 1 .. link[l].n = {}
    <3>1. 1 .. 0 = {}
      OBVIOUS
    <3> QED
      BY <1>4, <3>1, Zenon
  <2> QED
    BY <2>1 DEF Complete
<1>15. InTurn(mux)
  <2>1. ASSUME NEW m \in Muxes, NEW k \in Muxes, m < k, mux[k].state # "none" PROVE FALSE
    <3>1. k = 1
      BY <1>1, <1>6, <2>1
    <3>2. m \in Nat \ {0}
      BY StdioAssumption
    <3> QED
      BY <2>1, <3>1, <3>2
  <2> QED
    BY <2>1 DEF InTurn
<1>16. Read(<<>>, link) /\ \A i \in DOMAIN stdio.held : ~stdio.held[i].callback
  BY <1>5, NoneIn DEF Read
<1> QED
  BY <1>3, <1>4, <1>5, <1>6, <1>7, <1>10, <1>12, <1>13, <1>14, <1>15, <1>16, Zenon DEF StdioInv

LEMMA StdioStep == StdioInv /\ [StdioNext]_svars => StdioInv'
<1> SUFFICES ASSUME StdioInv, [StdioNext]_svars PROVE StdioInv'
  OBVIOUS
<1>1. ASSUME NEW l \in Links, Add(l) PROVE StdioInv'
  BY <1>1, AddStep
<1>2. CASE TransitionRun
  BY <1>2, TransitionStep
<1>3. CASE StopOutput
  BY <1>3, StopOutputStep
<1>4. ASSUME NEW m \in Muxes, Sending(m) PROVE StdioInv'
  BY <1>4, WriteImplStep, WriteCompletesStep, WriteHandlerStep DEF Sending
<1>5. ASSUME NEW m \in Muxes, MuxReadFails(m) \/ MuxReadHandler(m) PROVE StdioInv'
  BY <1>5, ReadFailsStep, ReadHandlerStep
<1>6. ASSUME NEW m \in Muxes, Accept(m) \/ AddClient(m) \/ SetConnection(m) PROVE StdioInv'
  BY <1>6, AcceptStep, AddClientStep, SetConnectionStep
<1>7. CASE UNCHANGED svars
  <2>1. /\ link' = link /\ stdio' = stdio /\ mux' = mux /\ delivered' = delivered
        /\ submitted' = submitted
    BY <1>7 DEF svars
  <2>2. Intact' <=> Intact
    BY <2>1 DEF Intact
  <2> QED
    BY <2>1, <2>2, ZenonT(30) DEF StdioInv
<1> QED
  BY <1>1, <1>2, <1>3, <1>4, <1>5, <1>6, <1>7 DEF StdioNext

\* StdioInv, the invariant that the two theorems below rest on: every handler of the
\* links, of StdioQueue and of mux::Connection keeps it.
THEOREM StdioInvariant == StdioSafety => []StdioInv
  BY StdioInitially, StdioStep, PTL DEF StdioSafety

\* Of any number of links and of connections of the mux: a link waits
\* exactly while one connection has its message and its callback.
THEOREM StdioCallbackHeld == StdioSpec => []CallbackHeld
  BY StdioInvariant, StdioMeans, PTL DEF StdioSpec

\* Of any number of links and of connections: the output is in order and
\* not repeated, and nothing of it is missing before the first failure.
THEOREM StdioOutputComplete == StdioSpec => []OutputComplete
  BY StdioInvariant, StdioMeans, PTL DEF StdioSpec

=============================================================================
