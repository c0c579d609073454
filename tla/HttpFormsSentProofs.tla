------------------------- MODULE HttpFormsSentProofs -------------------------
(***************************************************************************)
(* What the server takes from a form is what the form sends, the value of  *)
(* every field byte by byte (ValueAsSent) and the profile that an index    *)
(* selects (IndexAsSent); and a client reads of a response the text that   *)
(* the server sends (TextArrives).                                         *)
(*                                                                         *)
(* The server goes over a form or a text from left to right, with a        *)
(* cursor; the properties say what they mean without one, by the least     *)
(* place where a name stands (Raw), by the places where a character of the *)
(* value begins (Begin, Nth, Plain), by the digits of a number (Format,    *)
(* Denotes) and by what a JSON parser reads (Unescape).  The invariants    *)
(* say, at each place of the code, what the cursor has gone over in the    *)
(* words of the meaning: a loop over the fields has gone past no field of  *)
(* its name (Looking), a loop over a value has put out what the bytes      *)
(* behind it mean (Midway), a loop over digits has the one number that is  *)
(* written like them (Counted), and a loop over a text has sent pieces     *)
(* that are read as what lies behind it (Sending).                         *)
(*                                                                         *)
(* What grows with the length of a text is argued by the least element of  *)
(* a set of naturals (Smallest), in place of an induction theorem over an  *)
(* operator, which no prover here can use.                                 *)
(***************************************************************************)
EXTENDS HttpFormsProofs, FiniteSetTheorems, WellFoundedInduction

(* A field begins at b. *)
Starts(b) == b \in 1..FormEnd /\ (b = 1 \/ Char(b - 1) = 38)

(* The field from b to e has the name k. *)
NamedAt(k, b, e) ==
  /\ Starts(b) /\ e \in 1..FormEnd /\ IsFieldEnd(b, e + 1)
  /\ b + Len(k) <= e /\ Char(b + Len(k)) = 61
  /\ \A j \in 1..Len(k) : Char(b + j - 1) = k[j]

(* The loop over the fields stands at a field or at the end, and has gone  *)
(* past no field of the name it looks for.                                 *)
Looking ==
  /\ cursor = FormEnd + 1 \/ Starts(cursor)
  /\ \A b, e \in 1..FormEnd : NamedAt(key, b, e) => cursor <= b

(* o is what begins at the first d bytes of v.                             *)
Means(v, d, o) ==
  /\ Len(o) = Cardinality(BeginTo(v, d))
  /\ \A n \in 1..Len(o) : o[n] = Meaning(v, Nth(v, n))

(* The first d bytes of v are whole, and o is what they mean.              *)
DecodedTo(v, d, o) ==
  /\ d \in 0..Len(v) /\ (d < Len(v) => d + 1 \in Begin(v))
  /\ \A i \in 1..d : v[i] = 37 => Good(v, i) /\ i + 2 <= d
  /\ Means(v, d, o)

(* The loop over a value stands in the first field of the name, and what   *)
(* it has put out is the meaning of what it has read.                      *)
Midway ==
  LET v == Raw(key)
      base == stop - Len(v)
  IN  /\ Named(key) # {} /\ v \in Seq(1..255)
      /\ base \in Nat \ {0} /\ \A i \in 1..Len(v) : v[i] = Char(base + i - 1)
      /\ DecodedTo(v, cursor - base, out)

(* o is the value that was sent under the name k.                          *)
Taken(k, o) == IsSent(k) /\ o = Plain(Raw(k))

(* What the server knows of the form at each place.                        *)
Progress ==
  /\ pc = "receive" => out = << >>
  /\ pc = "field" => Looking /\ out = << >>
  /\ pc = "decode" => Midway
  /\ pc = "digits" => kind = "index" /\ Taken(key, out)
  /\ key = SecondKey => /\ kind = "wifi" /\ pc \in {"field", "decode", "accepted"}
                        /\ Taken(FirstKey, first) /\ first # << >>
  /\ kind = "wifi" /\ pc = "accepted" => key = SecondKey

(* The loop over an index has gone over digits, and its number is the only *)
(* one that is written like that.                                          *)
Counted ==
  /\ pc \in {"idle", "receive", "field", "decode"} => index = 0
  /\ pc = "digits" =>
       /\ cursor \in 1..(Len(out) + 1) /\ out # << >>
       /\ cursor = 1 => index = 0
       /\ cursor > 1 => \A n \in Nat : Denotes(SubSeq(out, 1, cursor - 1), n) <=> n = index
----------------------------------------------------------------------------
(* Every set of numbers has a least element, which stands for induction.   *)
LEMMA Smallest ==
  ASSUME NEW S \in SUBSET Nat, S # {}
  PROVE  \E m \in S : \A n \in S : m <= n
<1>1. PICK m \in S : \A n \in S : << n, m >> \notin OpToRel(<, Nat)
  BY WFMin, NatLessThanWellFounded
<1>2. \A n \in S : ~ (n < m)
  BY <1>1 DEF OpToRel
<1> QED BY <1>2

LEMMA FormEndFacts ==
  ASSUME body \in Seq(Byte)
  PROVE  /\ FormEnd \in 0..Len(body) /\ Char(FormEnd + 1) = 0
         /\ \A i \in 1..FormEnd : Char(i) # 0
<1> DEFINE zeros == {n \in Nat : n <= Len(body) /\ Char(n + 1) = 0}
<1>1. Len(body) \in Nat
  BY LenProperties
<1>2. Len(body) \in zeros
  BY <1>1 DEF Char
<1>3. PICK m \in zeros : \A n \in zeros : m <= n
  BY <1>2, Smallest
<1>4. ASSUME NEW i \in 1..m PROVE Char(i) # 0
  <2>1. i - 1 \in Nat /\ i - 1 <= Len(body) /\ (i - 1) + 1 = i /\ ~ (m <= i - 1)
    BY <1>1, <1>3
  <2> QED BY <1>3, <2>1
<1>5. m \in 0..Len(body) /\ Char(m + 1) = 0
  BY <1>1, <1>3
<1> HIDE DEF zeros
<1> QED BY <1>4, <1>5 DEF FormEnd

LEMMA FormChars ==
  ASSUME body \in Seq(Byte)
  PROVE  /\ Form \in Seq(Byte) /\ Len(Form) = FormEnd
         /\ \A i \in 1..FormEnd : Form[i] = Char(i) /\ Char(i) \in 1..255
<1>1. FormEnd \in 0..Len(body) /\ Len(body) \in Nat
  BY FormEndFacts, LenProperties
<1>2. \A i \in 1..FormEnd : body[i] \in Byte /\ Char(i) = body[i] /\ Char(i) \in 1..255
  <2> TAKE i \in 1..FormEnd
  <2>1. i \in 1..Len(body)
    BY <1>1
  <2>2. body[i] \in Byte
    BY <2>1, ElementOfSeq
  <2>3. Char(i) = body[i] /\ Char(i) # 0
    BY <2>1, FormEndFacts DEF Char
  <2> QED BY <2>2, <2>3 DEF Byte
<1> QED BY <1>1, <1>2, SubSeqProperties DEF Form

(* What Named says of the form, said of its bytes.                         *)
LEMMA NamedByBytes ==
  ASSUME body \in Seq(Byte), NEW k \in Key
  PROVE  /\ \A f \in Named(k) : /\ f[1] \in 1..FormEnd /\ f[2] \in 1..FormEnd
                                /\ f = << f[1], f[2] >> /\ NamedAt(k, f[1], f[2])
         /\ \A b, e \in 1..FormEnd : NamedAt(k, b, e) => << b, e >> \in Named(k)
<1>1. /\ FormEnd \in Nat /\ Len(Form) = FormEnd /\ Form \in Seq(Byte) /\ Char(FormEnd + 1) = 0
      /\ \A i \in 1..FormEnd : Form[i] = Char(i) /\ Char(i) # 0
  BY FormEndFacts, FormChars
<1>2. k \in Seq(Byte) /\ Len(k) \in Nat /\ 61 \in Byte
  BY LenProperties DEF Key, Byte
<1>3. /\ Append(k, 61) \in Seq(Byte) /\ Len(Append(k, 61)) = Len(k) + 1
      /\ Append(k, 61)[Len(k) + 1] = 61
      /\ \A j \in 1..Len(k) : Append(k, 61)[j] = k[j]
  BY <1>2, AppendProperties
<1>4. ASSUME NEW b \in 1..FormEnd, NEW e \in 1..FormEnd, b + Len(k) <= e
      PROVE  (SubSeq(Form, b, b + Len(k)) = Append(k, 61)
                <=> /\ Char(b + Len(k)) = 61
                    /\ \A j \in 1..Len(k) : Char(b + j - 1) = k[j])
  <2> DEFINE s == SubSeq(Form, b, b + Len(k))
  <2>1. \A i \in b..(b + Len(k)) : Form[i] \in Byte
    BY <1>1, <1>2, <1>4, ElementOfSeq
  <2>2. /\ s \in Seq(Byte) /\ Len(s) = Len(k) + 1
        /\ \A j \in 1..(Len(k) + 1) : s[j] = Form[b + j - 1]
    BY <1>1, <1>2, <1>4, <2>1, SubSeqProperties
  <2>3. \A j \in 1..(Len(k) + 1) : s[j] = Char(b + j - 1)
    BY <1>1, <1>2, <1>4, <2>2
  <2>4. s = Append(k, 61) <=> \A j \in 1..(Len(k) + 1) : s[j] = Append(k, 61)[j]
    BY <1>2, <1>3, <2>2, SeqEqual
  <2> HIDE DEF s
  <2>5. s[Len(k) + 1] = Char(b + Len(k)) /\ \A j \in 1..Len(k) : s[j] = Char(b + j - 1)
    BY <1>2, <2>3
  <2>6. s = Append(k, 61) <=> s[Len(k) + 1] = 61 /\ \A j \in 1..Len(k) : s[j] = k[j]
    BY <1>2, <1>3, <2>4
  <2>7. s = Append(k, 61) <=> /\ Char(b + Len(k)) = 61
                              /\ \A j \in 1..Len(k) : Char(b + j - 1) = k[j]
    BY <2>5, <2>6
  <2> QED BY <2>7 DEF s
<1>5. ASSUME NEW b \in 1..FormEnd, NEW e \in 1..FormEnd, b <= e
      PROVE  (<< b, e >> \in Fields <=> Starts(b) /\ IsFieldEnd(b, e + 1))
  <2>1. << b, e >> \in (1..(Len(Form) + 1)) \X (0..Len(Form))
    BY <1>1
  <2>2. << b, e >> \in Fields <=> /\ b = 1 \/ Form[b - 1] = 38
                                  /\ e = FormEnd \/ Form[e + 1] = 38
                                  /\ \A i \in b..e : Form[i] # 38
    BY <1>1, <2>1 DEF Fields
  <2>3. b = 1 \/ Form[b - 1] = Char(b - 1)
    BY <1>1
  <2>4. e = FormEnd \/ (Form[e + 1] = Char(e + 1) /\ Char(e + 1) # 0)
    BY <1>1
  <2>5. \A i \in b..e : Form[i] = Char(i) /\ Char(i) # 0
    BY <1>1
  <2> QED BY <1>1, <2>2, <2>3, <2>4, <2>5 DEF Starts, IsFieldEnd
<1>6. ASSUME NEW f \in Named(k)
      PROVE  /\ f[1] \in 1..FormEnd /\ f[2] \in 1..FormEnd
             /\ f = << f[1], f[2] >> /\ NamedAt(k, f[1], f[2])
  <2>1. f \in Fields /\ f[1] + Len(k) <= f[2] /\ SubSeq(Form, f[1], f[1] + Len(k)) = Append(k, 61)
    BY DEF Named
  <2>2. f \in (1..(Len(Form) + 1)) \X (0..Len(Form))
    BY <2>1 DEF Fields
  <2>3. f = << f[1], f[2] >> /\ f[1] \in 1..FormEnd /\ f[2] \in 1..FormEnd /\ f[1] <= f[2]
    BY <1>1, <1>2, <2>1, <2>2
  <2> QED BY <1>4, <1>5, <2>1, <2>3 DEF NamedAt
<1>7. ASSUME NEW b \in 1..FormEnd, NEW e \in 1..FormEnd, NamedAt(k, b, e)
      PROVE  << b, e >> \in Named(k)
  <2>1. b <= e /\ b + Len(k) <= e
    BY <1>2, <1>7 DEF NamedAt
  <2> QED BY <1>4, <1>5, <1>7, <2>1 DEF NamedAt, Named
<1> QED BY <1>6, <1>7

(* The first field of a name is what Raw is taken from.                    *)
LEMMA RawOfFirst ==
  ASSUME body \in Seq(Byte), NEW k \in Key, NEW b \in 1..FormEnd, NEW e \in 1..FormEnd,
         NamedAt(k, b, e), \A c, d \in 1..FormEnd : NamedAt(k, c, d) => b <= c
  PROVE  /\ Named(k) # {} /\ Raw(k) \in Seq(1..255) /\ Len(Raw(k)) = e - b - Len(k)
         /\ \A i \in 1..Len(Raw(k)) : Raw(k)[i] = Char(b + Len(k) + i)
<1>1. << b, e >> \in Named(k) /\ \A g \in Named(k) : b <= g[1]
  BY NamedByBytes
<1> DEFINE IsFirst(f) == f \in Named(k) /\ \A g \in Named(k) : f[1] <= g[1]
<1>2. ASSUME NEW f, IsFirst(f) PROVE f = << b, e >>
  <2>1. /\ f[1] \in 1..FormEnd /\ f[2] \in 1..FormEnd /\ f = << f[1], f[2] >>
        /\ NamedAt(k, f[1], f[2])
    BY <1>2, NamedByBytes
  <2>2. f[1] <= b /\ b <= f[1]
    BY <1>1, <1>2
  <2>3. f[1] = b /\ FormEnd \in Nat
    BY <2>1, <2>2, FormEndFacts
  <2>4. IsFieldEnd(b, f[2] + 1) /\ IsFieldEnd(b, e + 1) /\ b <= f[2] /\ b <= e
    BY <2>1, <2>3, LenProperties DEF NamedAt, Key
  <2>5. f[2] = e
    BY <2>1, <2>3, <2>4 DEF IsFieldEnd
  <2> QED BY <2>1, <2>3, <2>5
<1> DEFINE chosen == CHOOSE f \in Named(k) : \A g \in Named(k) : f[1] <= g[1]
<1>3. chosen = << b, e >>
  <2>1. IsFirst(<< b, e >>)
    BY <1>1
  <2>2. IsFirst(chosen)
    BY <2>1, Zenon
  <2> QED BY <1>2, <2>2
<1>4. Raw(k) = SubSeq(Form, b + Len(k) + 1, e)
  <2>1. Raw(k) = SubSeq(Form, chosen[1] + Len(k) + 1, chosen[2])
    BY DEF Raw
  <2> HIDE DEF chosen
  <2> QED BY <1>3, <2>1
<1>5. /\ FormEnd \in Nat /\ Len(k) \in Nat /\ b + Len(k) <= e
      /\ \A i \in 1..FormEnd : Form[i] = Char(i) /\ Char(i) \in 1..255
  BY FormEndFacts, FormChars, LenProperties DEF NamedAt, Key
<1> DEFINE s == b + Len(k) + 1
<1>6. s \in Int /\ e \in Int /\ \A i \in s..e : Form[i] \in 1..255
  BY <1>5
<1>7. /\ Raw(k) \in Seq(1..255) /\ Len(Raw(k)) = IF s <= e THEN e - s + 1 ELSE 0
      /\ \A i \in 1..(e - s + 1) : Raw(k)[i] = Form[s + i - 1]
  BY <1>4, <1>6, SubSeqProperties
<1>8. Len(Raw(k)) = e - b - Len(k)
  <2>1. Len(Raw(k)) = IF s <= e THEN e - s + 1 ELSE 0
    BY <1>7
  <2> QED BY <1>5, <2>1
<1>9. ASSUME NEW i \in 1..Len(Raw(k)) PROVE Raw(k)[i] = Char(b + Len(k) + i)
  <2>1. s + i - 1 = b + Len(k) + i /\ s + i - 1 \in 1..FormEnd /\ i \in 1..(e - s + 1)
    BY <1>5, <1>8
  <2> QED BY <1>5, <1>7, <2>1
<1> QED BY <1>1, <1>7, <1>8, <1>9

(* What is said of the form stays while the form does.                     *)
LEMMA SameForm ==
  ASSUME UNCHANGED request
  PROVE  /\ OutMax' = OutMax /\ FormEnd' = FormEnd /\ \A i : Char(i)' = Char(i)
         /\ \A k : Named(k)' = Named(k) /\ Raw(k)' = Raw(k) /\ IsSent(k)' = IsSent(k)
<1>1. body' = body /\ kind' = kind
  BY DEF request
<1>2. OutMax' = OutMax /\ \A i : Char(i)' = Char(i)
  BY <1>1 DEF OutMax, Char
<1>3. FormEnd' = FormEnd /\ Form' = Form
  BY <1>1 DEF Form, FormEnd, Char
<1>4. ASSUME NEW k PROVE Named(k)' = Named(k)
  BY <1>3, Zenon DEF Named, Fields
<1>5. ASSUME NEW k PROVE Raw(k)' = Raw(k)
  BY <1>3, <1>4, Zenon DEF Raw
<1>6. ASSUME NEW k PROVE IsSent(k)' = IsSent(k)
  BY <1>2, <1>4, <1>5, Zenon DEF IsSent
<1> QED BY <1>2, <1>3, <1>4, <1>5, <1>6

----------------------------------------------------------------------------
(* The next two lemmas are about the places at which the bytes of a value  *)
(* begin: they are counted in their order.                                 *)
LEMMA PlacesFinite ==
  ASSUME NEW v \in Seq(1..255), NEW d \in Nat
  PROVE  IsFiniteSet(BeginTo(v, d)) /\ Cardinality(BeginTo(v, d)) \in Nat
<1>1. BeginTo(v, d) \subseteq 1..d
  BY LenProperties DEF BeginTo, Begin
<1>2. IsFiniteSet(1..d)
  BY FS_Interval
<1> QED BY <1>1, <1>2, FS_Subset, FS_CardinalityType

LEMMA NextPlace ==
  ASSUME NEW v \in Seq(1..255), NEW d \in Nat, d + 1 \in Begin(v)
  PROVE  /\ BeginTo(v, d + 1) = BeginTo(v, d) \cup {d + 1}
         /\ Cardinality(BeginTo(v, d + 1)) = Cardinality(BeginTo(v, d)) + 1
<1>1. Begin(v) \subseteq Nat
  BY LenProperties DEF Begin
<1>2. BeginTo(v, d + 1) = BeginTo(v, d) \cup {d + 1} /\ d + 1 \notin BeginTo(v, d)
  BY <1>1 DEF BeginTo
<1> QED BY <1>2, PlacesFinite, FS_AddElement

LEMMA NthPlace ==
  ASSUME NEW v \in Seq(1..255), NEW d \in Nat, d + 1 \in Begin(v)
  PROVE  Nth(v, Cardinality(BeginTo(v, d)) + 1) = d + 1
<1> DEFINE count(i) == Cardinality(BeginTo(v, i))
<1>1. Begin(v) \subseteq Nat \ {0} /\ Len(v) \in Nat
  BY LenProperties DEF Begin
<1>2. ASSUME NEW i \in Begin(v), NEW j \in Begin(v), i < j PROVE count(i) < count(j)
  <2>1. i \in Nat /\ j - 1 \in Nat /\ (j - 1) + 1 = j /\ i <= j - 1
    BY <1>1, <1>2
  <2>2. count(j) = count(j - 1) + 1
    BY <2>1, NextPlace
  <2>3. BeginTo(v, i) \subseteq BeginTo(v, j - 1)
    BY <1>1, <2>1 DEF BeginTo
  <2>4. count(i) <= count(j - 1)
    BY <2>1, <2>3, PlacesFinite, FS_Subset
  <2>5. count(i) \in Nat /\ count(j - 1) \in Nat
    BY <2>1, PlacesFinite
  <2> HIDE DEF count
  <2> QED BY <2>2, <2>4, <2>5
<1>3. count(d + 1) = count(d) + 1 /\ count(d) \in Nat
  BY NextPlace, PlacesFinite
<1>4. ASSUME NEW i \in Begin(v), count(i) = count(d) + 1 PROVE i = d + 1
  <2>1. ~ (i < d + 1) /\ ~ (d + 1 < i)
    <3>1. i < d + 1 => count(i) < count(d + 1)
      BY <1>2
    <3>2. d + 1 < i => count(d + 1) < count(i)
      BY <1>2
    <3> HIDE DEF count
    <3> QED BY <1>3, <1>4, <3>1, <3>2
  <2> QED BY <1>1, <2>1
<1>5. \E i \in Begin(v) : count(i) = count(d) + 1
  BY <1>3
<1> HIDE DEF count
<1>6. (CHOOSE i \in Begin(v) : count(i) = count(d) + 1) = d + 1
  BY <1>4, <1>5
<1> QED BY <1>6 DEF Nth, count

----------------------------------------------------------------------------
(* One turn of decode_form_component keeps what it has put out right.      *)
LEMMA NothingDecoded ==
  ASSUME NEW v \in Seq(1..255)
  PROVE  DecodedTo(v, 0, << >>)
<1>1. Len(v) \in Nat
  BY LenProperties
<1>2. 0 < Len(v) => 1 \in Begin(v)
  BY <1>1 DEF Begin
<1>3. BeginTo(v, 0) = {}
  BY <1>1 DEF BeginTo, Begin
<1>4. Cardinality(BeginTo(v, 0)) = 0
  BY <1>3, FS_EmptySet
<1> QED BY <1>1, <1>2, <1>4, EmptySeq DEF DecodedTo, Means

(* The value grows by what stands at the next place.                       *)
LEMMA Appended ==
  ASSUME NEW v \in Seq(1..255), NEW o \in Seq(1..255), NEW d, DecodedTo(v, d, o), d < Len(v),
         Meaning(v, d + 1) \in 1..255, NEW w, w = Append(o, Meaning(v, d + 1))
  PROVE  Means(v, d + 1, w)
<1>1. d \in Nat /\ d + 1 \in Begin(v) /\ Len(v) \in Nat
  BY LenProperties DEF DecodedTo
<1>2. Cardinality(BeginTo(v, d + 1)) = Len(o) + 1 /\ Nth(v, Len(o) + 1) = d + 1
  <2>1. Len(o) = Cardinality(BeginTo(v, d))
    BY DEF DecodedTo, Means
  <2>2. Cardinality(BeginTo(v, d + 1)) = Cardinality(BeginTo(v, d)) + 1
    BY <1>1, NextPlace
  <2>3. Nth(v, Cardinality(BeginTo(v, d)) + 1) = d + 1
    BY <1>1, NthPlace
  <2> QED BY <2>1, <2>2, <2>3
<1>3. /\ Len(w) = Len(o) + 1 /\ w[Len(o) + 1] = Meaning(v, d + 1) /\ Len(o) \in Nat
      /\ \A n \in 1..Len(o) : w[n] = o[n]
  BY AppendProperties, LenProperties
<1>4. \A n \in 1..Len(o) : o[n] = Meaning(v, Nth(v, n))
  BY DEF DecodedTo, Means
<1>5. ASSUME NEW n \in 1..(Len(o) + 1) PROVE w[n] = Meaning(v, Nth(v, n))
  <2>1. CASE n = Len(o) + 1
    BY <1>2, <1>3, <2>1
  <2>2. CASE n # Len(o) + 1
    <3>1. n \in 1..Len(o)
      BY <1>3, <2>2
    <3> QED BY <1>3, <1>4, <3>1
  <2> QED BY <2>1, <2>2
<1> QED BY <1>2, <1>3, <1>5 DEF Means

LEMMA OneDecoded ==
  ASSUME NEW v \in Seq(1..255), NEW o \in Seq(1..255), NEW d, DecodedTo(v, d, o), d < Len(v),
         v[d + 1] # 37, Meaning(v, d + 1) \in 1..255, NEW w, w = Append(o, Meaning(v, d + 1))
  PROVE  DecodedTo(v, d + 1, w)
<1>1. /\ d \in Nat /\ d + 1 \in Begin(v) /\ Len(v) \in Nat /\ d + 1 \in 0..Len(v)
      /\ \A i \in 1..d : v[i] = 37 => Good(v, i) /\ i + 2 <= d
  BY LenProperties DEF DecodedTo
<1>2. ASSUME NEW i \in 1..(d + 1), v[i] = 37 PROVE Good(v, i) /\ i + 2 <= d + 1
  <2>1. i \in 1..d
    BY <1>1, <1>2
  <2> QED BY <1>1, <1>2, <2>1
<1>3. d + 1 < Len(v) => d + 2 \in Begin(v)
  <2>1. d \in 1..Len(v) => v[d] # 37
    BY <1>1
  <2> QED BY <1>1, <2>1 DEF Begin
<1>4. Means(v, d + 1, w)
  BY Appended
<1> QED BY <1>1, <1>2, <1>3, <1>4 DEF DecodedTo

LEMMA EscapeDecoded ==
  ASSUME NEW v \in Seq(1..255), NEW o \in Seq(1..255), NEW d, DecodedTo(v, d, o), d < Len(v),
         v[d + 1] = 37, Good(v, d + 1), Meaning(v, d + 1) \in 1..255,
         NEW w, w = Append(o, Meaning(v, d + 1))
  PROVE  DecodedTo(v, d + 3, w)
<1>1. /\ d \in Nat /\ d + 1 \in Begin(v) /\ Len(v) \in Nat
      /\ \A i \in 1..d : v[i] = 37 => Good(v, i) /\ i + 2 <= d
  BY LenProperties DEF DecodedTo
<1>2. d + 3 <= Len(v) /\ v[d + 2] # 37 /\ v[d + 3] # 37
  <2>1. (d + 1) + 1 = d + 2 /\ (d + 1) + 2 = d + 3
    BY <1>1
  <2>2. d + 3 <= Len(v) /\ HexDigit(v[d + 2]) >= 0 /\ HexDigit(v[d + 3]) >= 0
    BY <2>1 DEF Good
  <2>3. ~ (HexDigit(37) >= 0)
    BY DEF HexDigit
  <2> QED BY <2>2, <2>3
<1>3. BeginTo(v, d + 3) = BeginTo(v, d + 1)
  <2>1. d + 2 \notin Begin(v) /\ d + 3 \notin Begin(v)
    BY <1>1, <1>2 DEF Begin
  <2>2. Begin(v) \subseteq Nat
    BY <1>1 DEF Begin
  <2>3. ASSUME NEW i \in Begin(v), i <= d + 3 PROVE i <= d + 1
    BY <1>1, <2>1, <2>2, <2>3
  <2> QED BY <1>1, <2>2, <2>3 DEF BeginTo
<1>4. ASSUME NEW i \in 1..(d + 3), v[i] = 37 PROVE Good(v, i) /\ i + 2 <= d + 3
  <2>1. i \in 1..d \/ i = d + 1
    BY <1>1, <1>2, <1>4
  <2> QED BY <1>1, <1>4, <2>1
<1>5. d + 3 < Len(v) => d + 4 \in Begin(v)
  BY <1>1, <1>2 DEF Begin
<1>6. Means(v, d + 3, w)
  <2>1. Means(v, d + 1, w)
    BY Appended
  <2> QED BY <1>3, <2>1 DEF Means
<1>7. d + 3 \in 0..Len(v) /\ (d + 3) + 1 = d + 4
  BY <1>1, <1>2
<1> QED BY <1>4, <1>5, <1>6, <1>7 DEF DecodedTo

(* At its end the loop has put out the meaning of the value.               *)
LEMMA AllDecoded ==
  ASSUME NEW v \in Seq(1..255), NEW o \in Seq(1..255), DecodedTo(v, Len(v), o)
  PROVE  Strict(v) /\ o = Plain(v)
<1>1. Len(v) \in Nat /\ Len(o) \in Nat /\ o = [n \in 1..Len(o) |-> o[n]]
  BY LenProperties, SeqDef
<1>2. BeginTo(v, Len(v)) = Begin(v)
  BY <1>1 DEF BeginTo, Begin
<1>3. Strict(v)
  BY DEF DecodedTo, Strict
<1>4. Len(o) = Cardinality(Begin(v)) /\ \A n \in 1..Len(o) : o[n] = Meaning(v, Nth(v, n))
  BY <1>2 DEF DecodedTo, Means
<1>5. [n \in 1..Len(o) |-> o[n]] = [n \in 1..Len(o) |-> Meaning(v, Nth(v, n))]
  BY <1>4
<1>6. o = Plain(v)
  BY <1>1, <1>4, <1>5 DEF Plain
<1> QED BY <1>3, <1>6

LEMMA PlainLength ==
  ASSUME NEW v \in Seq(1..255)
  PROVE  Len(Plain(v)) = Cardinality(Begin(v)) /\ Cardinality(Begin(v)) \in Nat
<1>1. Len(v) \in Nat
  BY LenProperties
<1>2. BeginTo(v, Len(v)) = Begin(v)
  BY <1>1 DEF BeginTo, Begin
<1>3. Cardinality(Begin(v)) \in Nat
  BY <1>1, <1>2, PlacesFinite
<1> QED BY <1>3 DEF Plain

(* Before its end there is more to come.                                   *)
LEMMA MoreComes ==
  ASSUME NEW v \in Seq(1..255), NEW o \in Seq(1..255), NEW d, DecodedTo(v, d, o), d < Len(v)
  PROVE  Len(o) + 1 <= Len(Plain(v))
<1>1. d \in Nat /\ d + 1 \in Begin(v) /\ Len(v) \in Nat /\ Len(o) = Cardinality(BeginTo(v, d))
  BY LenProperties DEF DecodedTo, Means
<1>2. Cardinality(BeginTo(v, d + 1)) = Len(o) + 1
  BY <1>1, NextPlace
<1>3. BeginTo(v, Len(v)) = Begin(v) /\ BeginTo(v, d + 1) \subseteq Begin(v)
  BY <1>1 DEF BeginTo, Begin
<1>4. IsFiniteSet(Begin(v))
  BY <1>1, <1>3, PlacesFinite
<1>5. Cardinality(BeginTo(v, d + 1)) <= Cardinality(Begin(v))
  BY <1>3, <1>4, FS_Subset
<1> QED BY <1>2, <1>5, PlainLength

LEMMA PlainOfEmpty ==
  ASSUME NEW v \in Seq(1..255), Plain(v) = << >>
  PROVE  v = << >>
<1>1. CASE Len(v) = 0
  BY <1>1, EmptySeq
<1>2. CASE Len(v) # 0
  <2>1. 0 < Len(v)
    BY <1>2, LenProperties
  <2>2. Len(<< >>) + 1 <= Len(Plain(v)) /\ Len(<< >>) = 0
    BY <2>1, MoreComes, NothingDecoded, EmptySeq
  <2> QED BY <2>2
<1> QED BY <1>1, <1>2

----------------------------------------------------------------------------
LEMMA KeyIsKey == TypeOK => key \in Key /\ FirstKey \in Key /\ SecondKey # FirstKey
BY KeysAssumption DEF TypeOK

(* Steps that do not end the parsing.                                      *)
LEMMA Undecided == pc' \notin {"accepted", "rejected"} => ValueAsSent'
BY DEF ValueAsSent

(* What was taken stays taken.                                             *)
LEMMA FirstStays ==
  ASSUME Progress, UNCHANGED << request, key, first >>,
         key = SecondKey => pc' \in {"field", "decode", "accepted"}
  PROVE  (key = SecondKey => /\ kind = "wifi" /\ pc \in {"field", "decode", "accepted"}
                             /\ Taken(FirstKey, first) /\ first # << >>)'
BY SameForm DEF Progress, Taken, request

LEMMA FieldKeeps ==
  ASSUME IInv, Progress, Field
  PROVE  Progress' /\ ValueAsSent'
<1>1. /\ pc = "field" /\ Char(cursor) # 0 /\ Looking /\ out = << >>
      /\ UNCHANGED << request, received, key, out, first, index, sending >>
  BY DEF Field, Progress
<1>2. PICK e \in cursor..(Len(body) + 1) :
        /\ IsFieldEnd(cursor, e)
        /\ \/ \E eq \in cursor..(e - 1) :
                /\ IsMatch(cursor, e, eq)
                /\ cursor' = eq + 1 /\ stop' = e /\ pc' = "decode"
           \/ /\ ~ \E eq \in cursor..(e - 1) : IsMatch(cursor, e, eq)
              /\ cursor' = NextField(e) /\ UNCHANGED << stop, pc >>
  BY DEF Field
<1>3. /\ FormEnd \in Nat /\ Char(FormEnd + 1) = 0 /\ \A i \in 1..FormEnd : Char(i) # 0
      /\ body \in Seq(Byte) /\ key \in Key /\ Len(key) \in Nat
  BY FormEndFacts, KeyIsKey, LenProperties DEF IInv, TypeOK, Key
<1>4. Starts(cursor) /\ cursor \in 1..FormEnd
  BY <1>1, <1>3 DEF Looking, Starts
<1>5. e \in cursor..(FormEnd + 1)
  BY <1>2, <1>3, <1>4 DEF IsFieldEnd
<1>6. (key = SecondKey => /\ kind = "wifi" /\ pc \in {"field", "decode", "accepted"}
                          /\ Taken(FirstKey, first) /\ first # << >>)'
  BY <1>1, <1>2, FirstStays
<1>7. ASSUME NEW eq \in cursor..(e - 1), IsMatch(cursor, e, eq),
             cursor' = eq + 1, stop' = e, pc' = "decode"
      PROVE  Midway'
  <2>1. eq = cursor + Len(key) /\ Char(eq) = 61 /\ KeyMatches(cursor, eq)
    BY <1>3, <1>4, <1>7 DEF IsMatch, KeyMatches
  <2>2. e - 1 \in 1..FormEnd /\ (e - 1) + 1 = e
    BY <1>3, <1>4, <1>5, <1>7
  <2>3. NamedAt(key, cursor, e - 1)
    BY <1>2, <1>3, <1>4, <1>5, <2>1, <2>2 DEF NamedAt, KeyMatches
  <2>4. \A c, d \in 1..FormEnd : NamedAt(key, c, d) => cursor <= c
    BY <1>1 DEF Looking
  <2>5. /\ Named(key) # {} /\ Raw(key) \in Seq(1..255)
        /\ Len(Raw(key)) = (e - 1) - cursor - Len(key)
        /\ \A i \in 1..Len(Raw(key)) : Raw(key)[i] = Char(cursor + Len(key) + i)
    BY <1>3, <1>4, <2>2, <2>3, <2>4, RawOfFirst
  <2>6. stop' - Len(Raw(key)) = cursor' /\ cursor' = cursor + Len(key) + 1
    BY <1>3, <1>4, <1>5, <1>7, <2>1, <2>5
  <2>7. DecodedTo(Raw(key), 0, << >>)
    BY <2>5, NothingDecoded
  <2>8. ASSUME NEW i \in 1..Len(Raw(key)) PROVE Raw(key)[i] = Char(cursor' + i - 1)
    <3>1. Len(Raw(key)) \in Nat /\ i \in Nat
      BY <2>5, LenProperties
    <3>2. cursor' + i - 1 = cursor + Len(key) + i
      BY <1>3, <1>4, <2>6, <3>1
    <3> QED BY <2>5, <3>2
  <2>9. cursor' \in Nat \ {0} /\ cursor' - (stop' - Len(Raw(key))) = 0
    BY <1>3, <1>4, <2>6
  <2> QED BY <1>1, <2>5, <2>6, <2>7, <2>8, <2>9, SameForm DEF Midway
<1>8. ASSUME ~ \E eq \in cursor..(e - 1) : IsMatch(cursor, e, eq), cursor' = NextField(e)
      PROVE  Looking'
  <2>1. ASSUME NEW b \in 1..FormEnd, NEW d \in 1..FormEnd, NamedAt(key, b, d)
        PROVE  e + 1 <= b /\ e # FormEnd + 1
    <3>1. cursor <= b
      BY <1>1, <2>1 DEF Looking
    <3>2. b # cursor
      <4>1. SUFFICES ASSUME b = cursor PROVE FALSE
        OBVIOUS
      <4>2. d + 1 = e
        BY <1>2, <1>4, <1>5, <2>1, <4>1, <1>3 DEF NamedAt, IsFieldEnd
      <4> DEFINE eq == cursor + Len(key)
      <4>3. eq \in cursor..(e - 1) /\ Char(eq) = 61 /\ KeyMatches(cursor, eq)
        BY <1>3, <1>4, <2>1, <4>1, <4>2 DEF NamedAt, KeyMatches
      <4>4. ASSUME NEW j \in cursor..(eq - 1) PROVE Char(j) # 61
        <5>1. j - cursor + 1 \in 1..Len(key) /\ cursor + (j - cursor + 1) - 1 = j
          BY <1>3, <1>4
        <5>2. Char(j) = key[j - cursor + 1]
          BY <2>1, <4>1, <5>1 DEF NamedAt
        <5> QED BY <1>3, <5>1, <5>2 DEF Key
      <4> QED BY <1>8, <4>3, <4>4 DEF IsMatch
    <3>3. Char(b - 1) = 38
      BY <1>4, <2>1, <3>1, <3>2 DEF NamedAt, Starts
    <3>4. ~ (b - 1 < e)
      BY <1>2, <1>4, <1>5, <3>1, <3>2, <3>3 DEF IsFieldEnd
    <3> QED BY <1>3, <1>4, <1>5, <3>4
  <2>2. Char(e) = 0 <=> e = FormEnd + 1
    BY <1>3, <1>4, <1>5
  <2>3. CASE Char(e) = 0
    <3>1. cursor' = FormEnd + 1
      BY <1>8, <2>2, <2>3 DEF NextField
    <3> QED BY <1>1, <2>1, <2>2, <2>3, <3>1, SameForm DEF Looking, NamedAt, Starts, IsFieldEnd
  <2>4. CASE Char(e) = 38
    <3>1. cursor' = e + 1 /\ e \in 1..FormEnd /\ e \in Nat
      BY <1>3, <1>4, <1>5, <1>8, <2>2, <2>4 DEF NextField
    <3>2. cursor' = FormEnd + 1 \/ (cursor' \in 1..FormEnd /\ Char(cursor' - 1) = 38)
      BY <1>3, <2>4, <3>1
    <3>3. \A b, d \in 1..FormEnd : NamedAt(key, b, d) => cursor' <= b
      BY <2>1, <3>1
    <3> QED BY <1>1, <3>2, <3>3, SameForm DEF Looking, NamedAt, Starts, IsFieldEnd
  <2> QED BY <1>2, <2>3, <2>4 DEF IsFieldEnd
<1>9. Progress'
  BY <1>1, <1>2, <1>6, <1>7, <1>8 DEF Progress
<1> QED BY <1>1, <1>2, <1>9, Undecided

(* The loop over the fields has found none of the name.                    *)
LEMMA NotFoundMeans ==
  ASSUME IInv, Progress, NotFound
  PROVE  ~ IsSent(key)
<1>1. Looking /\ Char(cursor) = 0 /\ body \in Seq(Byte) /\ key \in Key
  BY KeyIsKey DEF NotFound, Progress, IInv, TypeOK
<1>2. cursor = FormEnd + 1 /\ FormEnd \in Nat
  BY <1>1, FormEndFacts DEF Looking, Starts
<1>3. Named(key) = {}
  <2>1. SUFFICES ASSUME NEW f \in Named(key) PROVE FALSE
    OBVIOUS
  <2>2. f[1] \in 1..FormEnd /\ f[2] \in 1..FormEnd /\ NamedAt(key, f[1], f[2])
    BY <1>1, NamedByBytes
  <2>3. cursor <= f[1]
    BY <1>1, <2>2 DEF Looking
  <2> QED BY <1>2, <2>2, <2>3
<1> QED BY <1>3 DEF IsSent

(* A byte that begins no escape stands for one.                            *)
LEMMA NoEscape ==
  ASSUME NEW i, Char(i) \in 1..255, Char(i) # 37
  PROVE  Decodable(i)
<1>1. Decoded(i) \in {32, Char(i)}
  BY Zenon DEF Decoded
<1>2. Decoded(i) # 0
  BY <1>1
<1> QED BY <1>2, Zenon DEF Decodable

(* The bytes of the body at the cursor are those of the value.             *)
LEMMA AtCursor ==
  ASSUME IInv, Midway, cursor < stop,
         NEW v, v = Raw(key), NEW base, base = stop - Len(v), NEW d, d = cursor - base
  PROVE  /\ v \in Seq(1..255) /\ DecodedTo(v, d, out) /\ d \in Nat /\ d < Len(v)
         /\ Char(cursor) = v[d + 1] /\ cursor + (Len(v) - d) = stop
         /\ Decodable(cursor) <=> (v[d + 1] = 37 => Good(v, d + 1))
         /\ Decodable(cursor) => Decoded(cursor) = Meaning(v, d + 1)
<1>1. /\ v \in Seq(1..255) /\ DecodedTo(v, d, out) /\ Len(v) \in Nat
      /\ base \in Nat \ {0} /\ \A i \in 1..Len(v) : v[i] = Char(base + i - 1)
      /\ cursor \in Nat /\ stop \in Nat /\ body \in Seq(Byte)
  BY LenProperties DEF Midway, IInv, TypeOK
<1>2. d \in Nat /\ d < Len(v) /\ cursor + (Len(v) - d) = stop
  BY <1>1 DEF DecodedTo
<1>3. /\ cursor \in Nat /\ stop \in Nat /\ base \in Nat /\ Len(v) \in Nat /\ d \in Nat
      /\ cursor = base + d
  BY <1>1, <1>2
<1>4. Char(cursor) = v[d + 1]
  <2>1. base + (d + 1) - 1 = cursor /\ d + 1 \in 1..Len(v)
    BY <1>2, <1>3
  <2> QED BY <1>1, <2>1
<1>5. d + 3 <= Len(v) => Char(cursor + 1) = v[d + 2] /\ Char(cursor + 2) = v[d + 3]
  <2>1. base + (d + 2) - 1 = cursor + 1 /\ base + (d + 3) - 1 = cursor + 2
    BY <1>3
  <2>2. d + 3 <= Len(v) => d + 2 \in 1..Len(v) /\ d + 3 \in 1..Len(v)
    BY <1>3
  <2> QED BY <1>1, <2>1, <2>2
<1>6. (d + 1) + 1 = d + 2 /\ (d + 1) + 2 = d + 3 /\ (cursor + 2 < stop <=> d + 3 <= Len(v))
  BY <1>1, <1>2
<1>7. v[d + 1] \in 1..255
  <2>1. d + 1 \in 1..Len(v)
    BY <1>2, <1>3
  <2> QED BY <1>1, <2>1, ElementOfSeq
<1>8. CASE v[d + 1] # 37
  <2>1. Decodable(cursor)
    BY <1>7, <1>8, <1>4, NoEscape
  <2>2. Decoded(cursor) = Meaning(v, d + 1)
    BY <1>4, <1>8 DEF Decoded, Meaning
  <2> QED BY <1>1, <1>2, <1>4, <1>8, <2>1, <2>2
<1>9. CASE v[d + 1] = 37
  <2>1. CASE d + 3 <= Len(v)
    <3> DEFINE high == HexDigit(v[d + 2])
               low == HexDigit(v[d + 3])
    <3>1. v[d + 2] \in Byte /\ v[d + 3] \in Byte
      <4>1. d + 2 \in 1..Len(v) /\ d + 3 \in 1..Len(v)
        BY <1>3, <2>1
      <4>2. v[d + 2] \in 1..255 /\ v[d + 3] \in 1..255
        BY <1>1, <4>1, ElementOfSeq
      <4> QED BY <4>2 DEF Byte
    <3>2. high \in -1..15 /\ low \in -1..15
      BY <3>1, HexRange
    <3>3. Decoded(cursor) = 16 * high + low /\ Meaning(v, d + 1) = 16 * high + low
      BY <1>4, <1>5, <1>6, <1>9, <2>1 DEF Decoded, Meaning
    <3>4. IsEscape(cursor) <=> high >= 0 /\ low >= 0
      BY <1>5, <1>6, <2>1 DEF IsEscape
    <3>5. Good(v, d + 1) <=> high >= 0 /\ low >= 0 /\ high + low > 0
      BY <1>6, <2>1 DEF Good
    <3> HIDE DEF high, low
    <3>6. high >= 0 /\ low >= 0 => (16 * high + low # 0 <=> high + low > 0)
      BY <3>2
    <3> QED BY <1>1, <1>2, <1>4, <1>9, <3>3, <3>4, <3>5, <3>6 DEF Decodable
  <2>2. CASE ~ (d + 3 <= Len(v))
    <3>1. ~ IsEscape(cursor) /\ ~ Good(v, d + 1)
      BY <1>6, <2>2 DEF IsEscape, Good
    <3> QED BY <1>1, <1>2, <1>4, <1>9, <3>1 DEF Decodable
  <2> QED BY <2>1, <2>2
<1> QED BY <1>8, <1>9

(* The loop over a value has met a broken escape, a zero or its limit.     *)
LEMMA DecodeFailsMeans ==
  ASSUME IInv, Progress, DecodeFails
  PROVE  ~ IsSent(key)
<1> DEFINE v == Raw(key)
           base == stop - Len(v)
           d == cursor - base
<1>1. Midway /\ cursor < stop /\ ~ (Decodable(cursor) /\ HasRoom) /\ out \in Seq(1..255)
  BY DEF DecodeFails, Progress, IInv, TypeOK
<1>2. /\ v \in Seq(1..255) /\ DecodedTo(v, d, out) /\ d \in Nat /\ d < Len(v)
      /\ Decodable(cursor) <=> (v[d + 1] = 37 => Good(v, d + 1))
  BY <1>1, AtCursor
<1> HIDE DEF v, d
<1>3. Len(v) \in Nat /\ Len(out) \in Nat /\ OutMax \in Nat
  BY <1>1, <1>2, LenProperties, SizesAssumption DEF OutMax
<1>4. CASE ~ Decodable(cursor)
  <2>1. d + 1 \in 1..Len(v) /\ v[d + 1] = 37 /\ ~ Good(v, d + 1)
    BY <1>2, <1>3, <1>4
  <2>2. ~ Strict(v)
    BY <2>1 DEF Strict
  <2> QED BY <2>2 DEF IsSent, v
<1>5. CASE ~ HasRoom
  <2>1. Len(out) + 1 <= Len(Plain(v)) /\ Len(Plain(v)) \in Nat
    BY <1>1, <1>2, MoreComes, PlainLength
  <2>2. ~ (Len(Plain(v)) < OutMax)
    BY <1>3, <1>5, <2>1 DEF HasRoom
  <2> QED BY <2>2 DEF IsSent, v
<1> QED BY <1>1, <1>4, <1>5

LEMMA FailsKeeps ==
  ASSUME IInv, Progress, NotFound \/ DecodeFails
  PROVE  Progress' /\ ValueAsSent'
<1>1. ~ IsSent(key) /\ Fails /\ pc \in {"field", "decode"}
  BY NotFoundMeans, DecodeFailsMeans DEF NotFound, DecodeFails
<1>2. /\ UNCHANGED << request, received, key, cursor, stop, first, index, sending >>
      /\ out' = << >> /\ kind' = kind
      /\ pc' = IF kind = "wifi" /\ key = SecondKey THEN "accepted" ELSE "rejected"
  BY <1>1 DEF Fails, request
<1>3. ~ IsSent(key)' /\ (~ IsSent(FirstKey))' = ~ IsSent(FirstKey)
  BY <1>1, <1>2, SameForm
<1>4. CASE kind = "wifi" /\ key = SecondKey
  <2>1. (key = SecondKey => /\ kind = "wifi" /\ pc \in {"field", "decode", "accepted"}
                            /\ Taken(FirstKey, first) /\ first # << >>)'
    BY <1>2, <1>4, FirstStays
  <2>2. pc' = "accepted" /\ key' = SecondKey /\ kind' = "wifi"
    BY <1>2, <1>4
  <2>3. ~ IsSent(SecondKey)'
    BY <1>1, <1>2, <1>4, SameForm
  <2>4. Progress'
    BY <2>1, <2>2 DEF Progress
  <2>5. ValueAsSent'
    BY <1>2, <2>1, <2>2, <2>3 DEF ValueAsSent, Taken
  <2> QED BY <2>4, <2>5
<1>5. CASE ~ (kind = "wifi" /\ key = SecondKey)
  <2>1. key = FirstKey /\ key # SecondKey
    BY <1>5, KeyIsKey DEF Progress, IInv, TypeOK
  <2>2. pc' = "rejected" /\ key' # SecondKey /\ ~ IsSent(FirstKey)'
    BY <1>1, <1>2, <1>3, <1>5, <2>1, SameForm
  <2>3. Progress'
    BY <2>2 DEF Progress
  <2>4. ValueAsSent'
    BY <2>2 DEF ValueAsSent
  <2> QED BY <2>3, <2>4
<1> QED BY <1>4, <1>5

LEMMA DecodeKeeps ==
  ASSUME IInv, Progress, Decode
  PROVE  Progress' /\ ValueAsSent'
<1> DEFINE v == Raw(key)
           base == stop - Len(v)
           d == cursor - base
           size == IF Char(cursor) = 37 THEN 3 ELSE 1
<1>1. /\ Midway /\ pc = "decode" /\ cursor < stop /\ Decodable(cursor) /\ out \in Seq(1..255)
      /\ out' = Append(out, Decoded(cursor)) /\ cursor' = cursor + size
      /\ UNCHANGED << pc, request, received, key, stop, first, index, sending >>
  BY DEF Decode, Progress, IInv, TypeOK
<1>2. /\ v \in Seq(1..255) /\ DecodedTo(v, d, out) /\ d \in Nat /\ d < Len(v)
      /\ Char(cursor) = v[d + 1] /\ Decoded(cursor) = Meaning(v, d + 1)
      /\ v[d + 1] = 37 => Good(v, d + 1)
  BY <1>1, AtCursor
<1>3. Meaning(v, d + 1) \in 1..255
  BY <1>1, <1>2, DecodedIsByte DEF IInv, TypeOK
<1>4. out' = Append(out, Meaning(v, d + 1))
  BY <1>1, <1>2
<1>5. cursor' - (stop' - Len(v)) = d + size
  <2>1. Len(v) \in Nat /\ cursor \in Nat /\ stop \in Nat /\ stop' = stop /\ size \in Nat
    BY <1>1, <1>2, LenProperties DEF IInv, TypeOK
  <2> HIDE DEF v, size
  <2> QED BY <1>1, <2>1
<1>6. DecodedTo(v, d + size, out')
  <2> HIDE DEF v, d
  <2>1. CASE Char(cursor) = 37
    BY <1>1, <1>2, <1>3, <1>4, <2>1, EscapeDecoded
  <2>2. CASE Char(cursor) # 37
    BY <1>1, <1>2, <1>3, <1>4, <2>2, OneDecoded
  <2> QED BY <2>1, <2>2
<1>7. Midway'
  BY <1>1, <1>5, <1>6, SameForm DEF Midway
<1>8. (key = SecondKey => /\ kind = "wifi" /\ pc \in {"field", "decode", "accepted"}
                          /\ Taken(FirstKey, first) /\ first # << >>)'
  BY <1>1, FirstStays
<1>9. Progress'
  BY <1>1, <1>7, <1>8 DEF Progress
<1> QED BY <1>1, <1>9, Undecided

(* A value that was decoded to its end is one that was sent.               *)
LEMMA DecodedIsSent ==
  ASSUME IInv, Progress, Decoding
  PROVE  Taken(key, out) /\ Raw(key) \in Seq(1..255)
<1> DEFINE v == Raw(key)
           d == cursor - (stop - Len(v))
<1>1. Midway /\ cursor = stop /\ out \in Seq(1..255) /\ Len(out) < OutMax /\ stop \in Nat
  BY DEF Decoding, Progress, IInv, TypeOK, InBounds
<1>2. Named(key) # {} /\ v \in Seq(1..255) /\ DecodedTo(v, d, out) /\ d = Len(v)
  BY <1>1, LenProperties DEF Midway
<1>3. Strict(v) /\ out = Plain(v)
  BY <1>1, <1>2, AllDecoded
<1> QED BY <1>1, <1>2, <1>3 DEF Taken, IsSent

LEMMA TakeKeeps ==
  ASSUME IInv, Progress, TakeValue \/ TakeSsid \/ TakeIndex
  PROVE  Progress' /\ ValueAsSent'
<1>1. /\ pc = "decode" /\ Taken(key, out) /\ Raw(key) \in Seq(1..255)
      /\ UNCHANGED request /\ kind' = kind
  BY DecodedIsSent DEF TakeValue, TakeSsid, TakeIndex, Decoding, request
<1>2. \A k, o : Taken(k, o)' = Taken(k, o)
  BY <1>1, SameForm DEF Taken
<1>3. key = FirstKey \/ key = SecondKey
  BY DEF IInv, TypeOK
<1>4. CASE TakeValue
  <2>1. pc' = "accepted" /\ UNCHANGED << request, reading, sending >>
    BY <1>4 DEF TakeValue
  <2>2. (key = SecondKey => /\ kind = "wifi" /\ pc \in {"field", "decode", "accepted"}
                            /\ Taken(FirstKey, first) /\ first # << >>)'
    BY <2>1, FirstStays DEF reading
  <2>3. key' = key /\ out' = out /\ Taken(key, out)'
    BY <1>1, <2>1, SameForm DEF reading, Taken
  <2>4. kind = "wifi" => key = SecondKey
    BY <1>4 DEF TakeValue
  <2>5. kind = "value" => key = FirstKey
    BY <1>3 DEF Progress
  <2>6. Progress'
    BY <1>1, <2>1, <2>2, <2>3, <2>4 DEF Progress
  <2>7. kind' = "value" => Taken(FirstKey, out)'
    BY <1>1, <2>3, <2>5
  <2>8. kind' = "wifi" => Taken(SecondKey, out)' /\ (Taken(FirstKey, first) /\ first # << >>)'
    BY <1>1, <2>2, <2>3, <2>4
  <2>9. IsSent(SecondKey)' => Named(SecondKey)' # {}
    BY DEF IsSent
  <2>10. ValueAsSent'
    BY <2>1, <2>7, <2>8, <2>9 DEF ValueAsSent, Taken
  <2> QED BY <2>6, <2>10
<1>5. CASE TakeSsid /\ out = << >>
  <2>1. pc' = "rejected" /\ kind' = "wifi" /\ key' = FirstKey /\ key = FirstKey
    BY <1>1, <1>5 DEF TakeSsid
  <2>2. Raw(FirstKey) = << >>
    BY <1>1, <1>5, <2>1, PlainOfEmpty DEF Taken
  <2>3. Raw(FirstKey)' = << >>
    BY <1>1, <2>2, SameForm
  <2>4. Progress'
    BY <2>1, KeysAssumption DEF Progress
  <2>5. ValueAsSent'
    BY <2>1, <2>3 DEF ValueAsSent
  <2> QED BY <2>4, <2>5
<1>6. CASE TakeSsid /\ out # << >>
  <2>1. /\ pc' = "field" /\ kind' = "wifi" /\ key = FirstKey /\ key' = SecondKey
        /\ cursor' = 1 /\ first' = out /\ out' = << >>
    BY <1>1, <1>6 DEF TakeSsid
  <2>2. Taken(FirstKey, first)' /\ first' # << >>
    BY <1>1, <1>6, <2>1, SameForm DEF Taken
  <2>3. Looking'
    <3>1. FormEnd' = FormEnd /\ FormEnd \in Nat
      BY <1>1, SameForm, FormEndFacts DEF IInv, TypeOK
    <3>2. cursor' = FormEnd' + 1 \/ Starts(cursor)'
      BY <2>1, <3>1 DEF Starts
    <3>3. \A b \in 1..FormEnd' : cursor' <= b
      BY <2>1, <3>1
    <3> QED BY <3>2, <3>3 DEF Looking
  <2>4. Progress'
    BY <2>1, <2>2, <2>3 DEF Progress
  <2> QED BY <2>1, <2>4, Undecided
<1>7. CASE TakeIndex
  <2>1. /\ kind' = "index" /\ key' = key /\ out' = out /\ pc' \in {"rejected", "digits"}
    BY <1>1, <1>7 DEF TakeIndex
  <2>2. key # SecondKey
    BY <1>7 DEF Progress, TakeIndex
  <2>3. Taken(key, out)'
    BY <1>1, <2>1, SameForm DEF Taken
  <2>4. Progress'
    BY <2>1, <2>2, <2>3 DEF Progress
  <2>5. ValueAsSent'
    BY <2>1 DEF ValueAsSent
  <2> QED BY <2>4, <2>5
<1> QED BY <1>4, <1>5, <1>6, <1>7

(* The digits of an index.                                                 *)
LEMMA DigitsKeep ==
  ASSUME IInv, Progress, Digit \/ TakeDigits
  PROVE  Progress' /\ ValueAsSent'
<1>1. /\ pc = "digits" /\ kind = "index" /\ Taken(key, out) /\ key # SecondKey
      /\ UNCHANGED << request, key, out >> /\ pc' \in {"digits", "accepted", "rejected"}
  BY DEF Digit, TakeDigits, Progress, reading
<1>2. kind' = "index" /\ Taken(key, out)' /\ key' # SecondKey
  BY <1>1, SameForm DEF Taken, request
<1> QED BY <1>1, <1>2 DEF Progress, ValueAsSent

(* The other steps do not look at the form.                                *)
LEMMA OthersKeep ==
  ASSUME IInv, Progress, ValueAsSent,
         \/ Call \/ Return \/ Refuse \/ Receive \/ Close \/ SendFails
         \/ OpenText \/ Text \/ EndText \/ CloseText \/ UNCHANGED vars
  PROVE  Progress' /\ ValueAsSent'
<1>1. CASE Call \/ Return
  <2>1. pc' \in {"idle", "receive", "open"} /\ out' = << >> /\ key' # SecondKey
    BY <1>1, KeysAssumption DEF Call, Return, IInv, Blank, Progress, reading, TypeOK
  <2> QED BY <2>1, Undecided DEF Progress
<1>2. CASE Refuse \/ Close
  <2>1. /\ pc = "receive" /\ pc' = "rejected" /\ key' # SecondKey
        /\ UNCHANGED << request, reading, sending >>
    BY <1>2 DEF Refuse, Close, MayReceive, Progress, reading
  <2>2. Len(body) \in Nat /\ BodyMax \in Nat /\ received' = received /\ body' = body
    BY <2>1, LenProperties, SizesAssumption DEF IInv, TypeOK, request, reading
  <2>3. ~ Parsed'
    BY <1>2, <2>2 DEF Refuse, Close, MayReceive, Parsed, IInv, TypeOK
  <2> QED BY <2>1, <2>3 DEF Progress, ValueAsSent
<1>3. CASE Receive
  <2>1. /\ pc = "receive" /\ pc' \in {"receive", "field"} /\ key' # SecondKey /\ out' = << >>
        /\ cursor' = 1 /\ UNCHANGED request
    BY <1>3 DEF Receive, MayReceive, Progress, IInv, Blank
  <2>2. FormEnd' = FormEnd /\ FormEnd \in Nat
    BY <2>1, SameForm, FormEndFacts DEF IInv, TypeOK
  <2>3. Looking'
    <3>1. cursor' = FormEnd' + 1 \/ Starts(cursor)'
      BY <2>1, <2>2 DEF Starts
    <3>2. \A b \in 1..FormEnd' : cursor' <= b
      BY <2>1, <2>2
    <3> QED BY <3>1, <3>2 DEF Looking
  <2> QED BY <2>1, <2>3, Undecided DEF Progress
<1>4. CASE SendFails \/ OpenText \/ Text \/ EndText \/ CloseText
  <2>1. pc' \in {"broken", "text", "close", "complete"} /\ key' # SecondKey
    BY <1>4 DEF SendFails, OpenText, Text, EndText, CloseText, Progress, reading
  <2> QED BY <2>1, Undecided DEF Progress
<1>5. CASE UNCHANGED vars
  <2>1. UNCHANGED << pc, request, reading >> /\ kind' = kind
    BY <1>5 DEF vars, request
  <2>2. Looking' = Looking /\ Midway' = Midway
    <3>1. Looking' = Looking
      BY <2>1, SameForm DEF Looking, NamedAt, Starts, IsFieldEnd, reading
    <3>2. Midway' = Midway
      BY <2>1, SameForm DEF Midway, reading
    <3> QED BY <3>1, <3>2
  <2>3. Taken(key, out)' = Taken(key, out) /\ Taken(FirstKey, first)' = Taken(FirstKey, first)
    BY <2>1, SameForm DEF Taken, reading
  <2>4. Progress'
    BY <2>1, <2>2, <2>3 DEF Progress, reading
  <2>5. Parsed' = Parsed
    BY <2>1 DEF Parsed, reading, request
  <2>6. ValueAsSent'
    BY <2>1, <2>5, SameForm DEF ValueAsSent, reading
  <2> QED BY <2>4, <2>6
<1> QED BY <1>1, <1>2, <1>3, <1>4, <1>5

LEMMA AlwaysAsSent == Spec => [](IInv /\ Progress /\ ValueAsSent)
<1>1. Init => Progress /\ ValueAsSent
  BY KeysAssumption DEF Init, Progress, ValueAsSent
<1>2. IInv /\ Progress /\ ValueAsSent /\ [Next]_vars => Progress' /\ ValueAsSent'
  BY FieldKeeps, FailsKeeps, DecodeKeeps, TakeKeeps, DigitsKeep, OthersKeep DEF Next, Parse
<1> QED BY <1>1, <1>2, Inductive, PTL DEF Spec

(* For every body, however it is cut, for every names of fields and sizes  *)
(* of buffers: what is taken is what the first field of the name means,    *)
(* and no value, index or SSID is taken of a field that is malformed or    *)
(* too long.  Such a password is not refused (MalformedRefused).           *)
THEOREM TakenAsSent == Spec => []ValueAsSent
BY AlwaysAsSent, PTL

----------------------------------------------------------------------------
(* What form_profile_index_format writes: Format is defined by recursion,  *)
(* so there is first to be shown that there is such a function.            *)
Digits == Seq(48..57)

Written(f, n) == IF n < 10 THEN << 48 + n >> ELSE Append(f[n \div 10], 48 + (n % 10))

WrittenTo(f, k) == f \in [0..k -> Digits] /\ \A n \in 0..k : f[n] = Written(f, n)

LEMMA DivSmaller ==
  ASSUME NEW n \in Nat
  PROVE  /\ n \div 10 \in Nat /\ n % 10 \in 0..9 /\ n = 10 * (n \div 10) + (n % 10)
         /\ n >= 10 => n \div 10 \in 0..(n - 1)
<1>1. n \div 10 \in Nat /\ n % 10 \in 0..9 /\ n = 10 * (n \div 10) + (n % 10)
  OBVIOUS
<1>2. ASSUME NEW q \in Nat, NEW r \in 0..9, n = 10 * q + r, n >= 10
      PROVE  q \in 0..(n - 1)
  BY <1>2
<1>3. n >= 10 => n \div 10 \in 0..(n - 1)
  BY <1>1, <1>2
<1> QED BY <1>1, <1>3

LEMMA WrittenIsDigits ==
  ASSUME NEW n \in Nat, NEW f, n >= 10 => f[n \div 10] \in Digits
  PROVE  Written(f, n) \in Digits
<1>1. CASE n < 10
  <2>1. 48 + n \in 48..57
    BY <1>1
  <2> QED BY <1>1, <2>1 DEF Written, Digits
<1>2. CASE ~ (n < 10)
  <2>1. 48 + (n % 10) \in 48..57 /\ n >= 10
    BY <1>2, DivSmaller
  <2> QED BY <1>2, <2>1, AppendProperties DEF Written, Digits
<1> QED BY <1>1, <1>2

LEMMA CanBeWritten == \A k \in Nat : \E f : WrittenTo(f, k)
<1> DEFINE open == {k \in Nat : ~ \E f : WrittenTo(f, k)}
<1> SUFFICES ASSUME open # {} PROVE FALSE
  OBVIOUS
<1>1. PICK k \in open : \A l \in open : k <= l
  BY Smallest
<1>2. CASE k = 0
  <2> DEFINE f == [n \in 0..0 |-> << 48 >>]
  <2>1. \A n \in 0..0 : f[n] = Written(f, n) /\ f[n] \in Digits
    <3>1. << 48 >> \in Digits
      BY DEF Digits
    <3> QED BY <3>1 DEF Written
  <2>2. WrittenTo(f, k)
    BY <1>2, <2>1 DEF WrittenTo
  <2> QED BY <1>1, <2>2
<1>3. CASE k # 0
  <2>1. k \in Nat /\ k - 1 \in Nat /\ k - 1 \notin open
    BY <1>1, <1>3
  <2>2. PICK f : WrittenTo(f, k - 1)
    BY <2>1
  <2> DEFINE g == [n \in 0..k |-> IF n = k THEN Written(f, k) ELSE f[n]]
  <2>3. f \in [0..(k - 1) -> Digits] /\ \A n \in 0..(k - 1) : f[n] = Written(f, n)
    BY <2>2 DEF WrittenTo
  <2>4. Written(f, k) \in Digits
    BY <2>1, <2>3, DivSmaller, WrittenIsDigits
  <2>5. g \in [0..k -> Digits]
    BY <2>1, <2>3, <2>4
  <2>6. ASSUME NEW n \in 0..k PROVE g[n] = Written(g, n)
    <3>1. g[n] = Written(f, n)
      BY <2>1, <2>3
    <3>2. n >= 10 => g[n \div 10] = f[n \div 10]
      <4>1. n >= 10 => n \div 10 \in 0..(n - 1)
        BY DivSmaller
      <4>2. n >= 10 => n \div 10 \in 0..k /\ n \div 10 # k
        BY <2>1, <4>1
      <4> HIDE DEF Written
      <4> QED BY <4>2
    <3>3. n < 10 \/ n >= 10
      BY <2>1
    <3> HIDE DEF g
    <3> QED BY <3>1, <3>2, <3>3 DEF Written
  <2>7. WrittenTo(g, k)
    BY <2>5, <2>6 DEF WrittenTo
  <2> QED BY <1>1, <2>7
<1> QED BY <1>2, <1>3

LEMMA WrittenAlike ==
  ASSUME NEW k \in Nat, NEW l \in Nat, NEW f, NEW g, WrittenTo(f, k), WrittenTo(g, l),
         NEW n \in Nat, n <= k, n <= l
  PROVE  f[n] = g[n]
<1> DEFINE differ == {m \in Nat : m <= k /\ m <= l /\ f[m] # g[m]}
<1> SUFFICES ASSUME differ # {} PROVE FALSE
  OBVIOUS
<1>1. PICK m \in differ : \A p \in differ : m <= p
  BY Smallest
<1>2. m \in Nat /\ m <= k /\ m <= l /\ f[m] # g[m]
  BY <1>1
<1>3. f[m] = Written(f, m) /\ g[m] = Written(g, m)
  BY <1>2 DEF WrittenTo
<1>4. m >= 10
  BY <1>2, <1>3 DEF Written
<1>5. m \div 10 \in 0..(m - 1)
  BY <1>2, <1>4, DivSmaller
<1>6. m \div 10 \in Nat /\ ~ (m <= m \div 10) /\ m \div 10 <= k /\ m \div 10 <= l
  BY <1>2, <1>5
<1>7. f[m \div 10] = g[m \div 10]
  BY <1>1, <1>6
<1> QED BY <1>2, <1>3, <1>4, <1>7 DEF Written

LEMMA FormatIsWritten == \A n \in Nat : Format[n] = Written(Format, n) /\ Format[n] \in Digits
<1> DEFINE Part(n) == CHOOSE f : WrittenTo(f, n)
           F == [n \in Nat |-> Part(n)[n]]
<1>1. \A n \in Nat : WrittenTo(Part(n), n)
  BY CanBeWritten
<1> HIDE DEF Part
<1>2. ASSUME NEW n \in Nat PROVE F[n] = Written(F, n) /\ F[n] \in Digits
  <2>1. WrittenTo(Part(n), n) /\ n \in 0..n
    BY <1>1
  <2>2. F[n] = Written(Part(n), n) /\ F[n] \in Digits
    BY <2>1 DEF WrittenTo
  <2>3. n >= 10 => F[n \div 10] = Part(n)[n \div 10]
    <3>1. SUFFICES ASSUME n >= 10 PROVE F[n \div 10] = Part(n)[n \div 10]
      OBVIOUS
    <3> DEFINE m == n \div 10
    <3>2. m \in Nat /\ m <= n /\ m <= m
      BY <3>1, DivSmaller
    <3>3. WrittenTo(Part(m), m)
      BY <1>1, <3>2
    <3> HIDE DEF m
    <3>4. Part(m)[m] = Part(n)[m]
      BY <2>1, <3>2, <3>3, WrittenAlike
    <3> QED BY <3>2, <3>4 DEF m
  <2>4. n < 10 \/ n >= 10
    OBVIOUS
  <2> HIDE DEF F
  <2> QED BY <2>2, <2>3, <2>4 DEF Written
<1>3. F = [n \in Nat |-> Written(F, n)]
  BY <1>2
<1>4. \E f : f = [n \in Nat |-> IF n < 10 THEN << 48 + n >>
                                ELSE Append(f[n \div 10], 48 + (n % 10))]
  BY <1>3 DEF Written
<1> HIDE DEF F
<1>5. Format = [n \in Nat |-> IF n < 10 THEN << 48 + n >>
                              ELSE Append(Format[n \div 10], 48 + (n % 10))]
  BY <1>4 DEF Format
<1>6. \A n \in Nat : Format[n] = Written(Format, n)
  BY <1>5 DEF Written
<1>7. ASSUME NEW n \in Nat PROVE Format[n] \in Digits
  <2> DEFINE wrong == {m \in Nat : Format[m] \notin Digits}
  <2> SUFFICES ASSUME wrong # {} PROVE FALSE
    OBVIOUS
  <2>1. PICK m \in wrong : \A p \in wrong : m <= p
    BY Smallest
  <2>2. m >= 10 => Format[m \div 10] \in Digits
    <3>1. SUFFICES ASSUME m >= 10 PROVE Format[m \div 10] \in Digits
      OBVIOUS
    <3>2. m \div 10 \in Nat /\ ~ (m <= m \div 10)
      BY <2>1, <3>1, DivSmaller
    <3> QED BY <2>1, <3>2
  <2> QED BY <1>6, <2>1, <2>2, WrittenIsDigits
<1> QED BY <1>6, <1>7

(* A number by its last digit and the rest, as it is written ...           *)
LEMMA FormatShape ==
  ASSUME NEW n \in Nat
  PROVE  /\ Format[n] \in Digits /\ Len(Format[n]) \in Nat \ {0}
         /\ n < 10 => Format[n] = << 48 + n >> /\ Len(Format[n]) = 1
         /\ n >= 10 => /\ Len(Format[n]) = Len(Format[n \div 10]) + 1
                       /\ Format[n][Len(Format[n])] = 48 + (n % 10)
                       /\ \A j \in 1..Len(Format[n \div 10]) :
                            Format[n][j] = Format[n \div 10][j]
<1>1. n \div 10 \in Nat /\ n % 10 \in 0..9
  BY DivSmaller
<1>2. Format[n] \in Digits /\ Format[n \div 10] \in Digits /\ Format[n] = Written(Format, n)
  BY <1>1, FormatIsWritten
<1>3. Len(Format[n \div 10]) \in Nat
  BY <1>2, LenProperties DEF Digits
<1>4. CASE n < 10
  BY <1>2, <1>4 DEF Written
<1>5. CASE ~ (n < 10)
  <2>1. 48 + (n % 10) \in 48..57
    BY <1>1
  <2>2. Format[n] = Append(Format[n \div 10], 48 + (n % 10))
    BY <1>2, <1>5 DEF Written
  <2> DEFINE g == Format[n \div 10]
             c == 48 + (n % 10)
  <2>3. /\ Len(Append(g, c)) = Len(g) + 1 /\ Append(g, c)[Len(g) + 1] = c
        /\ \A j \in 1..Len(g) : Append(g, c)[j] = g[j]
    BY <1>2, <2>1, AppendProperties DEF Digits
  <2> QED BY <1>2, <1>3, <1>5, <2>2, <2>3
<1> QED BY <1>4, <1>5

(* ... and as it is read.                                                  *)
LEMMA DenotesMore ==
  ASSUME NEW v \in Seq(1..255), v # << >>, NEW c, NEW w, Len(w) = Len(v) + 1,
         w[Len(v) + 1] = c, \A i \in 1..Len(v) : w[i] = v[i],
         NEW n \in Nat
  PROVE  Denotes(w, n) <=> c = 48 + (n % 10) /\ Denotes(v, n \div 10)
<1> DEFINE m == n \div 10
           f == Format[n]
           g == Format[m]
<1>1. m \in Nat /\ n % 10 \in 0..9 /\ n = 10 * m + (n % 10)
  BY DivSmaller
<1>2. Len(v) \in Nat \ {0} /\ Len(f) \in Nat \ {0} /\ Len(g) \in Nat \ {0}
  BY <1>1, EmptySeq, FormatShape
<1>3. Denotes(w, n) <=>
        /\ Len(f) <= Len(v) + 1
        /\ \A i \in 1..(Len(v) + 1) :
             w[i] = IF i - (Len(v) + 1 - Len(f)) < 1 THEN 48 ELSE f[i - (Len(v) + 1 - Len(f))]
  BY DEF Denotes
<1>4. Denotes(v, m) <=>
        /\ Len(g) <= Len(v)
        /\ \A i \in 1..Len(v) :
             v[i] = IF i - (Len(v) - Len(g)) < 1 THEN 48 ELSE g[i - (Len(v) - Len(g))]
  BY DEF Denotes
<1>5. CASE n >= 10
  <2>1. /\ Len(f) = Len(g) + 1 /\ f[Len(g) + 1] = 48 + (n % 10)
        /\ \A j \in 1..Len(g) : f[j] = g[j]
    BY <1>5, FormatShape
  <2> HIDE DEF m, f, g
  <2>2. \A i \in 1..(Len(v) + 1) : i - (Len(v) + 1 - Len(f)) = i - (Len(v) - Len(g))
    BY <1>2, <2>1
  <2>3. \A i \in 1..Len(v) : ~ (i - (Len(v) - Len(g)) < 1) =>
                               f[i - (Len(v) - Len(g))] = g[i - (Len(v) - Len(g))]
    BY <1>2, <2>1
  <2>4. Len(v) + 1 - (Len(v) - Len(g)) = Len(g) + 1 /\ ~ (Len(g) + 1 < 1)
    BY <1>2
  <2> DEFINE P(i) == w[i] = IF i - (Len(v) - Len(g)) < 1 THEN 48 ELSE f[i - (Len(v) - Len(g))]
             Q(i) == v[i] = IF i - (Len(v) - Len(g)) < 1 THEN 48 ELSE g[i - (Len(v) - Len(g))]
  <2>5. P(Len(v) + 1) <=> c = 48 + (n % 10)
    BY <2>1, <2>4
  <2>6. \A i \in 1..Len(v) : P(i) <=> Q(i)
    BY <2>3
  <2>7. 1..(Len(v) + 1) = 1..Len(v) \cup {Len(v) + 1} /\ (Len(f) <= Len(v) + 1 <=> Len(g) <= Len(v))
    BY <1>2, <2>1
  <2>8. Denotes(w, n) <=> Len(f) <= Len(v) + 1 /\ \A i \in 1..(Len(v) + 1) : P(i)
    BY <1>3, <2>2
  <2>9. Denotes(v, m) <=> Len(g) <= Len(v) /\ \A i \in 1..Len(v) : Q(i)
    BY <1>4
  <2> HIDE DEF P, Q
  <2> QED BY <2>5, <2>6, <2>7, <2>8, <2>9, Zenon DEF m
<1>6. CASE n < 10
  <2>1. m = 0 /\ n % 10 = n /\ f = << 48 + n >> /\ g = << 48 >> /\ Len(f) = 1 /\ Len(g) = 1
    <3>1. m = 0 /\ n % 10 = n
      BY <1>1, <1>6
    <3>2. f = << 48 + n >> /\ Len(f) = 1
      BY <1>6, FormatShape
    <3>3. Format[0] = << 48 >> /\ Len(Format[0]) = 1
      <4>1. Format[0] = << 48 + 0 >> /\ Len(Format[0]) = 1
        BY FormatShape
      <4> QED BY <4>1
    <3>4. g = << 48 >> /\ Len(g) = 1
      BY <3>1, <3>3
    <3> HIDE DEF m, f, g
    <3> QED BY <3>1, <3>2, <3>4
  <2> HIDE DEF m, f, g
  <2>2. Denotes(w, n) <=> (\A i \in 1..Len(v) : v[i] = 48) /\ c = 48 + n
    <3>1. \A i \in 1..Len(v) : i - (Len(v) + 1 - Len(f)) < 1
      BY <1>2, <2>1
    <3>2. Len(v) + 1 - (Len(v) + 1 - Len(f)) = 1 /\ f[1] = 48 + n /\ Len(f) <= Len(v) + 1
      BY <1>2, <2>1
    <3>3. 1..(Len(v) + 1) = 1..Len(v) \cup {Len(v) + 1}
      BY <1>2
    <3> DEFINE P(i) == w[i] = IF i - (Len(v) + 1 - Len(f)) < 1 THEN 48
                              ELSE f[i - (Len(v) + 1 - Len(f))]
    <3>4. \A i \in 1..Len(v) : P(i) <=> v[i] = 48
      BY <3>1
    <3>5. P(Len(v) + 1) <=> c = 48 + n
      BY <1>2, <2>1, <3>2
    <3>6. Denotes(w, n) <=> Len(f) <= Len(v) + 1 /\ \A i \in 1..(Len(v) + 1) : P(i)
      BY <1>3
    <3> HIDE DEF P
    <3> QED BY <3>2, <3>3, <3>4, <3>5, <3>6, Zenon
  <2>3. Denotes(v, m) <=> \A i \in 1..Len(v) : v[i] = 48
    <3>1. Len(g) <= Len(v)
      BY <1>2, <2>1
    <3>2. ASSUME NEW i \in 1..Len(v)
          PROVE  (IF i - (Len(v) - Len(g)) < 1 THEN 48 ELSE g[i - (Len(v) - Len(g))]) = 48
      <4>1. i - (Len(v) - Len(g)) < 1 \/ i - (Len(v) - Len(g)) = 1
        BY <1>2, <2>1
      <4> QED BY <2>1, <4>1
    <3> QED BY <1>4, <3>1, <3>2
  <2> QED BY <2>1, <2>2, <2>3 DEF m
<1> QED BY <1>5, <1>6

LEMMA DenotesOne ==
  ASSUME NEW w, Len(w) = 1, NEW n \in Nat
  PROVE  Denotes(w, n) <=> n < 10 /\ w[1] = 48 + n
<1>1. CASE n < 10
  <2>1. Format[n] = << 48 + n >> /\ Len(Format[n]) = 1
    BY <1>1, FormatShape
  <2> QED BY <1>1, <2>1 DEF Denotes
<1>2. CASE n >= 10
  <2>1. n \div 10 \in Nat
    BY DivSmaller
  <2>2. Len(Format[n \div 10]) \in Nat \ {0} /\ Len(Format[n]) = Len(Format[n \div 10]) + 1
    BY <1>2, <2>1, FormatShape
  <2>3. ~ (Len(Format[n]) <= 1)
    BY <2>2
  <2> QED BY <1>2, <2>3 DEF Denotes
<1>3. n < 10 \/ n >= 10
  OBVIOUS
<1> QED BY <1>1, <1>2, <1>3

LEMMA DenotesNone ==
  ASSUME NEW n \in Nat
  PROVE  ~ Denotes(<< >>, n)
<1>1. Len(Format[n]) \in Nat \ {0} /\ Len(<< >>) = 0
  BY FormatShape, EmptySeq
<1> QED BY <1>1 DEF Denotes

(* The first digits of an index, one after the other.                      *)
LEMMA OneMoreDigit ==
  ASSUME NEW v \in Seq(1..255), NEW d \in 1..Len(v)
  PROVE  LET p == SubSeq(v, 1, d - 1)
             w == SubSeq(v, 1, d)
         IN  /\ p \in Seq(1..255) /\ Len(p) = d - 1 /\ Len(w) = d
             /\ w[d] = v[d] /\ \A i \in 1..Len(p) : w[i] = p[i]
             /\ d > 1 => p # << >>
             /\ d = Len(v) => w = v
<1> DEFINE p == SubSeq(v, 1, d - 1)
           w == SubSeq(v, 1, d)
<1>1. Len(v) \in Nat /\ d \in Nat \ {0} /\ \A i \in 1..d : v[i] \in 1..255
  <2>1. Len(v) \in Nat /\ d \in Nat \ {0} /\ \A i \in 1..d : i \in 1..Len(v)
    BY LenProperties
  <2>2. \A i \in 1..Len(v) : v[i] \in 1..255
    BY ElementOfSeq
  <2> QED BY <2>1, <2>2
<1>2. p \in Seq(1..255) /\ Len(p) = d - 1 /\ \A i \in 1..(d - 1) : p[i] = v[i]
  <2>1. \A i \in 1..(d - 1) : v[i] \in 1..255
    BY <1>1
  <2> QED BY <1>1, <2>1, SubSeqProperties
<1>3. w \in Seq(1..255) /\ Len(w) = d /\ \A i \in 1..d : w[i] = v[i]
  BY <1>1, SubSeqProperties
<1>4. d = Len(v) => w = v
  BY <1>3, SeqEqual
<1> HIDE DEF p, w
<1>5. d > 1 => p # << >>
  BY <1>1, <1>2, EmptySeq
<1> QED BY <1>1, <1>2, <1>3, <1>4, <1>5 DEF p, w

(* What the number of the loop is after one more digit.                    *)
LEMMA NextNumber ==
  ASSUME IInv, Counted, pc = "digits", cursor <= Len(out), NEW n \in Nat
  PROVE  Denotes(SubSeq(out, 1, cursor), n)
           <=> out[cursor] \in 48..57 /\ n = index * 10 + (out[cursor] - 48)
<1> DEFINE p == SubSeq(out, 1, cursor - 1)
           w == SubSeq(out, 1, cursor)
           c == out[cursor]
<1>1. /\ out \in Seq(1..255) /\ cursor \in 1..Len(out) /\ index \in Nat
      /\ cursor = 1 => index = 0
      /\ cursor > 1 => \A m \in Nat : Denotes(p, m) <=> m = index
  BY LenProperties DEF Counted, IInv, TypeOK
<1>2. /\ p \in Seq(1..255) /\ Len(p) = cursor - 1 /\ Len(w) = cursor
      /\ w[cursor] = c /\ \A i \in 1..Len(p) : w[i] = p[i]
      /\ cursor > 1 => p # << >>
  BY <1>1, OneMoreDigit
<1>3. c \in 1..255 /\ n \div 10 \in Nat /\ n % 10 \in 0..9 /\ n = 10 * (n \div 10) + (n % 10)
  BY <1>1, ElementOfSeq, DivSmaller
<1> HIDE DEF p, w, c
<1>4. CASE cursor = 1
  <2>1. Denotes(w, n) <=> n < 10 /\ c = 48 + n
    BY <1>2, <1>4, DenotesOne
  <2> QED BY <1>1, <1>3, <1>4, <2>1 DEF w, c
<1>5. CASE cursor > 1
  <2>1. Len(w) = Len(p) + 1 /\ w[Len(p) + 1] = c
    BY <1>1, <1>2
  <2>2. Denotes(w, n) <=> c = 48 + (n % 10) /\ Denotes(p, n \div 10)
    BY <1>2, <1>5, <2>1, DenotesMore
  <2>3. Denotes(w, n) <=> c = 48 + (n % 10) /\ n \div 10 = index
    BY <1>1, <1>3, <1>5, <2>2
  <2>4. ASSUME NEW q \in Nat, NEW r \in 0..9, n = 10 * q + r
        PROVE  c = 48 + r /\ q = index <=> c \in 48..57 /\ n = index * 10 + (c - 48)
    BY <1>1, <1>3, <2>4
  <2>5. c = 48 + (n % 10) /\ n \div 10 = index <=> c \in 48..57 /\ n = index * 10 + (c - 48)
    BY <1>3, <2>4
  <2> QED BY <2>3, <2>5 DEF w, c
<1> QED BY <1>1, <1>4, <1>5

(* A beginning that writes no index below the bound is part of none.       *)
LEMMA NoneBelow ==
  ASSUME NEW v \in Seq(1..255), NEW d \in 1..Len(v),
         \A n \in 0..(IndexMax - 1) : ~ Denotes(SubSeq(v, 1, d), n)
  PROVE  \A n \in 0..(IndexMax - 1) : ~ Denotes(v, n)
<1> DEFINE written == {e \in Nat : /\ d <= e /\ e <= Len(v)
                                   /\ \E n \in 0..(IndexMax - 1) : Denotes(SubSeq(v, 1, e), n)}
<1>1. Len(v) \in Nat /\ IndexMax \in Nat
  BY LenProperties, SizesAssumption
<1>2. written = {}
  <2> SUFFICES ASSUME written # {} PROVE FALSE
    OBVIOUS
  <2>1. PICK e \in written : \A f \in written : e <= f
    BY Smallest
  <2>2. PICK n \in 0..(IndexMax - 1) : Denotes(SubSeq(v, 1, e), n)
    BY <2>1
  <2>3. e \in Nat /\ d < e /\ e <= Len(v)
    BY <1>1, <2>1, <2>2
  <2>4. e \in 1..Len(v) /\ e > 1 /\ e - 1 \in Nat /\ d <= e - 1 /\ e - 1 <= Len(v)
    BY <1>1, <2>3
  <2> DEFINE p == SubSeq(v, 1, e - 1)
             w == SubSeq(v, 1, e)
  <2>5. /\ p \in Seq(1..255) /\ Len(w) = Len(p) + 1 /\ p # << >>
        /\ \A i \in 1..Len(p) : w[i] = p[i]
    BY <2>4, OneMoreDigit
  <2> HIDE DEF p, w
  <2>6. n \in Nat /\ n \div 10 \in 0..(IndexMax - 1)
    <3>1. n \in Nat /\ n \div 10 \in Nat /\ n % 10 \in 0..9 /\ n = 10 * (n \div 10) + (n % 10)
      BY <1>1, DivSmaller
    <3>2. ASSUME NEW q \in Nat, NEW r \in 0..9, n = 10 * q + r PROVE q \in 0..(IndexMax - 1)
      BY <1>1, <3>2
    <3> QED BY <3>1, <3>2
  <2>7. Denotes(p, n \div 10)
    <3>1. Denotes(w, n)
      BY <2>2 DEF w
    <3>2. Denotes(w, n) <=> w[Len(p) + 1] = 48 + (n % 10) /\ Denotes(p, n \div 10)
      BY <2>5, <2>6, DenotesMore
    <3> QED BY <3>1, <3>2
  <2>8. e - 1 \in written
    BY <2>4, <2>6, <2>7 DEF p
  <2> QED BY <2>1, <2>4, <2>8
<1>3. Len(v) \notin written /\ d <= Len(v) /\ Len(v) \in 1..Len(v)
  BY <1>1, <1>2
<1>4. SubSeq(v, 1, Len(v)) = v
  BY <1>3, OneMoreDigit
<1> SUFFICES ASSUME NEW n \in 0..(IndexMax - 1), Denotes(v, n) PROVE FALSE
  OBVIOUS
<1>5. Denotes(SubSeq(v, 1, Len(v)), n)
  BY <1>4
<1> QED BY <1>1, <1>3, <1>5

(* The guard asks exactly whether the bound is kept.                       *)
LEMMA FitsIsNeeded ==
  ASSUME index \in Nat, NEW d \in 0..9, ~ Fits(d)
  PROVE  index * 10 + d >= IndexMax
<1> DEFINE q == (IndexMax - 1) \div 10
           r == (IndexMax - 1) % 10
<1>1. q \in Nat /\ r \in 0..9 /\ IndexMax - 1 = 10 * q + r
  BY SizesAssumption
<1>2. ~ (index < q) /\ ~ (index = q /\ d <= r)
  BY DEF Fits
<1> HIDE DEF q, r
<1> QED BY <1>1, <1>2, SizesAssumption

(* The indices that a request may mean.                                    *)
Meant == {n \in 0..(IndexMax - 1) : IsSent(FirstKey) /\ Denotes(Plain(Raw(FirstKey)), n)}

LEMMA MeantStays == UNCHANGED request => Meant' = Meant
BY SameForm DEF Meant

LEMMA DigitCounts ==
  ASSUME IInv, Progress, Counted, Digit
  PROVE  Counted' /\ IndexAsSent'
<1>1. /\ pc = "digits" /\ cursor <= Len(out) /\ kind' = "index" /\ key = FirstKey
      /\ Taken(FirstKey, out) /\ UNCHANGED << request, key, out >>
  BY DEF Digit, Progress, IInv, TypeOK, request
<1>2. out \in Seq(1..255) /\ cursor \in 1..Len(out) /\ index \in Nat /\ out # << >> /\ Len(out) \in Nat
  BY <1>1, LenProperties DEF Counted, IInv, TypeOK
<1>3. \A n \in Nat : Denotes(SubSeq(out, 1, cursor), n)
                       <=> out[cursor] \in 48..57 /\ n = index * 10 + (out[cursor] - 48)
  BY <1>1, NextNumber
<1>4. CASE MayAdd(out[cursor])
  <2>1. /\ pc' = "digits" /\ cursor' = cursor + 1 /\ out[cursor] \in 48..57
        /\ index' = index * 10 + (out[cursor] - 48)
    BY <1>1, <1>4 DEF Digit, MayAdd
  <2>2. \A n \in Nat : Denotes(SubSeq(out', 1, cursor' - 1), n) <=> n = index'
    BY <1>1, <1>2, <1>3, <2>1
  <2>3. Counted'
    BY <1>1, <1>2, <2>1, <2>2 DEF Counted
  <2> QED BY <2>1, <2>3 DEF IndexAsSent
<1>5. CASE ~ MayAdd(out[cursor])
  <2>1. pc' = "rejected"
    BY <1>5 DEF Digit
  <2>2. \A n \in 0..(IndexMax - 1) : ~ Denotes(SubSeq(out, 1, cursor), n)
    <3>1. SUFFICES ASSUME out[cursor] \in 48..57
                   PROVE  index * 10 + (out[cursor] - 48) >= IndexMax
      BY <1>2, <1>3, SizesAssumption
    <3>2. out[cursor] - 48 \in 0..9 /\ ~ Fits(out[cursor] - 48)
      BY <1>5, <3>1 DEF MayAdd
    <3> QED BY <1>2, <3>2, FitsIsNeeded
  <2>3. \A n \in 0..(IndexMax - 1) : ~ Denotes(out, n)
    BY <1>2, <2>2, NoneBelow
  <2>4. Meant' = {}
    BY <1>1, <2>3, MeantStays DEF Meant, Taken
  <2>5. Counted' /\ IndexAsSent'
    BY <2>1, <2>4 DEF Counted, IndexAsSent, Meant
  <2> QED BY <2>5
<1> QED BY <1>4, <1>5

LEMMA TakeDigitsCounts ==
  ASSUME IInv, Progress, Counted, TakeDigits
  PROVE  Counted' /\ IndexAsSent'
<1>1. /\ pc = "digits" /\ cursor > Len(out) /\ pc' = "accepted" /\ kind = "index"
      /\ key = FirstKey /\ Taken(FirstKey, out) /\ UNCHANGED << request, reading, sending >>
  BY DEF TakeDigits, Progress, IInv, TypeOK
<1>2. /\ out \in Seq(1..255) /\ cursor = Len(out) + 1 /\ Len(out) \in Nat \ {0}
      /\ index \in Nat /\ index < IndexMax
      /\ cursor > 1 => \A n \in Nat : Denotes(SubSeq(out, 1, cursor - 1), n) <=> n = index
  BY <1>1, EmptySeq, LenProperties DEF Counted, IInv, TypeOK, InBounds
<1>3. SubSeq(out, 1, Len(out)) = out
  BY <1>2, OneMoreDigit
<1>4. cursor > 1 /\ cursor - 1 = Len(out)
  BY <1>2
<1>5. \A n \in Nat : Denotes(out, n) <=> n = index
  BY <1>2, <1>3, <1>4
<1>6. Meant = {index}
  BY <1>1, <1>2, <1>5, SizesAssumption DEF Meant, Taken
<1>7. Meant' = {index'}
  BY <1>1, <1>6, MeantStays DEF reading
<1> QED BY <1>1, <1>7 DEF Counted, IndexAsSent, Meant

LEMMA OthersCount ==
  ASSUME IInv, Progress, Counted, IndexAsSent, [Next]_vars, ~ Digit, ~ TakeDigits
  PROVE  Counted' /\ IndexAsSent'
<1>1. CASE NotFound \/ DecodeFails
  <2>1. /\ ~ IsSent(key) /\ pc' \in {"accepted", "rejected"} /\ UNCHANGED request /\ kind' = kind
        /\ pc' = "accepted" => kind = "wifi"
    BY <1>1, NotFoundMeans, DecodeFailsMeans DEF NotFound, DecodeFails, Fails, request
  <2>2. kind = "index" => key = FirstKey
    BY DEF Progress, IInv, TypeOK
  <2>3. kind' = "index" => pc' = "rejected" /\ Meant' = {}
    BY <2>1, <2>2, MeantStays DEF Meant
  <2> QED BY <2>1, <2>3 DEF Counted, IndexAsSent, Meant
<1>2. CASE TakeIndex
  <2>1. /\ kind' = "index" /\ UNCHANGED request /\ Taken(FirstKey, out) /\ out \in Seq(1..255)
        /\ index' = 0 /\ out' = out
        /\ IF out = << >> THEN pc' = "rejected" ELSE pc' = "digits" /\ cursor' = 1
    BY <1>2, DecodedIsSent DEF TakeIndex, Decoding, Progress, Counted, IInv, TypeOK, request
  <2>2. CASE out = << >>
    <3>1. Meant = {}
      BY <2>1, <2>2, DenotesNone DEF Meant, Taken
    <3>2. Meant' = {}
      BY <2>1, <3>1, MeantStays
    <3> QED BY <2>1, <2>2, <3>2 DEF Counted, IndexAsSent, Meant
  <2>3. CASE out # << >>
    BY <2>1, <2>3, LenProperties DEF Counted, IndexAsSent
  <2> QED BY <2>2, <2>3
<1>3. CASE Refuse \/ Close
  <2>1. /\ pc = "receive" /\ pc' = "rejected" /\ UNCHANGED << request, reading, sending >>
    BY <1>3 DEF Refuse, Close, MayReceive
  <2>2. Len(body) \in Nat /\ BodyMax \in Nat /\ received' = received /\ body' = body
    BY <2>1, LenProperties, SizesAssumption DEF IInv, TypeOK, request, reading
  <2>3. ~ Parsed'
    BY <1>3, <2>2 DEF Refuse, Close, MayReceive, Parsed, IInv, TypeOK
  <2> QED BY <2>1, <2>3 DEF Counted, IndexAsSent
<1>4. CASE UNCHANGED vars
  <2>1. UNCHANGED << pc, request, reading >> /\ kind' = kind
    BY <1>4 DEF vars, request
  <2>2. Meant' = Meant /\ Parsed' = Parsed
    BY <2>1, MeantStays DEF Parsed, reading, request
  <2>3. Counted'
    BY <2>1 DEF Counted, reading
  <2>4. IndexAsSent'
    BY <2>1, <2>2 DEF IndexAsSent, Meant, reading
  <2> QED BY <2>3, <2>4
<1>5. CASE Field \/ Decode \/ TakeSsid \/ TakeValue \/ Receive \/ Call \/ Return
  <2>1. /\ pc' \in {"idle", "receive", "open", "field", "decode", "accepted", "rejected"}
        /\ index' = index \/ index' = 0
        /\ pc \in {"idle", "receive", "field", "decode"} \/ index' = 0
        /\ pc' \in {"accepted", "rejected"} => kind' # "index"
    BY <1>5 DEF Field, Decode, TakeSsid, TakeValue, Decoding, Receive, MayReceive, Call, Return,
       Progress, request, reading
  <2> QED BY <2>1 DEF Counted, IndexAsSent
<1>6. CASE SendFails \/ OpenText \/ Text \/ EndText \/ CloseText
  <2>1. pc' \in {"broken", "text", "close", "complete"}
    BY <1>6 DEF SendFails, OpenText, Text, EndText, CloseText
  <2> QED BY <2>1 DEF Counted, IndexAsSent
<1> QED BY <1>1, <1>2, <1>3, <1>4, <1>5, <1>6 DEF Next, Parse

(* The id of a profile, with leading zeros or without, selects it, and     *)
(* nothing else does: for every bound and every text.                      *)
THEOREM SelectedAsSent == Spec => []IndexAsSent
<1>1. Init => Counted /\ IndexAsSent
  BY DEF Init, Counted, IndexAsSent
<1>2. IInv /\ Progress /\ Counted /\ IndexAsSent /\ [Next]_vars => Counted' /\ IndexAsSent'
  BY DigitCounts, TakeDigitsCounts, OthersCount
<1> QED BY <1>1, <1>2, AlwaysAsSent, PTL DEF Spec

----------------------------------------------------------------------------
(* A text is sent as a string of which one piece after the other is read   *)
(* as one character: at says where each piece begins.                      *)
Cuts(s, t, at) ==
  /\ at \in [1..(Len(t) + 1) -> 1..(Len(s) + 1)]
  /\ at[1] = 1 /\ at[Len(t) + 1] = Len(s) + 1
  /\ \A n \in 1..Len(t) : /\ at[n + 1] = at[n] + WidthAt(s, at[n])
                          /\ CharAt(s, at[n]) = t[n]

Reads(s, t) == \E at : Cuts(s, t, at)

LEMMA Widths == \A s, i : WidthAt(s, i) \in {1, 2, 6}
BY DEF WidthAt

(* A piece is read alike whatever comes after it ...                       *)
LEMMA BeforeOthers ==
  ASSUME NEW s \in Seq(Byte), NEW r \in Seq(Byte), NEW i \in 1..Len(s),
         i + WidthAt(s, i) <= Len(s) + 1
  PROVE  WidthAt(s \o r, i) = WidthAt(s, i) /\ CharAt(s \o r, i) = CharAt(s, i)
<1> DEFINE u == s \o r
<1>1. /\ Len(s) \in Nat /\ Len(r) \in Nat /\ Len(u) = Len(s) + Len(r)
      /\ \A j \in 1..Len(s) : u[j] = s[j]
  BY LenProperties, ConcatProperties
<1> HIDE DEF u
<1>2. Len(u) >= Len(s) /\ Len(u) \in Nat /\ u[i] = s[i]
  BY <1>1
<1>3. s[i] = 92 => i < Len(s) /\ i < Len(u) /\ u[i + 1] = s[i + 1]
  BY <1>1, <1>2 DEF WidthAt
<1>4. IsCodePoint(u, i) <=> IsCodePoint(s, i)
  BY <1>2, <1>3 DEF IsCodePoint
<1>5. IsCodePoint(s, i) => CodePoint(u, i) = CodePoint(s, i)
  <2> SUFFICES ASSUME IsCodePoint(s, i) PROVE CodePoint(u, i) = CodePoint(s, i)
    OBVIOUS
  <2>1. i + 5 <= Len(s) /\ i + 5 <= Len(u)
    BY <1>1, <1>2 DEF WidthAt
  <2>2. /\ i + 2 \in 1..Len(s) /\ i + 3 \in 1..Len(s)
        /\ i + 4 \in 1..Len(s) /\ i + 5 \in 1..Len(s)
    BY <1>1, <2>1
  <2>3. /\ u[i + 2] = s[i + 2] /\ u[i + 3] = s[i + 3]
        /\ u[i + 4] = s[i + 4] /\ u[i + 5] = s[i + 5]
    BY <1>1, <2>2
  <2> QED BY <2>1, <2>3 DEF CodePoint
<1>6. WidthAt(u, i) = WidthAt(s, i)
  BY <1>2, <1>4 DEF WidthAt
<1>7. CharAt(u, i) = CharAt(s, i)
  BY <1>2, <1>3, <1>4, <1>5 DEF CharAt
<1> QED BY <1>6, <1>7 DEF u

(* ... and before it.                                                      *)
LEMMA AfterOthers ==
  ASSUME NEW s \in Seq(Byte), NEW r \in Seq(Byte), NEW i \in 1..Len(r)
  PROVE  /\ WidthAt(s \o r, Len(s) + i) = WidthAt(r, i)
         /\ CharAt(s \o r, Len(s) + i) = CharAt(r, i)
<1> DEFINE u == s \o r
           b == Len(s) + i
<1>1. /\ Len(s) \in Nat /\ Len(r) \in Nat /\ Len(u) = Len(s) + Len(r)
      /\ \A j \in 1..Len(r) : u[Len(s) + j] = r[j]
  <2>1. /\ Len(s) \in Nat /\ Len(r) \in Nat /\ Len(u) = Len(s) + Len(r)
        /\ \A j \in 1..(Len(s) + Len(r)) : u[j] = IF j <= Len(s) THEN s[j] ELSE r[j - Len(s)]
    BY LenProperties, ConcatProperties
  <2> HIDE DEF u
  <2>2. ASSUME NEW j \in 1..Len(r) PROVE u[Len(s) + j] = r[j]
    <3>1. Len(s) + j \in 1..(Len(s) + Len(r)) /\ ~ (Len(s) + j <= Len(s)) /\ (Len(s) + j) - Len(s) = j
      BY <2>1
    <3> QED BY <2>1, <3>1
  <2> QED BY <2>1, <2>2
<1> HIDE DEF u
<1>2. u[b] = r[i] /\ b \in Nat
  BY <1>1
<1>3. \A k \in 1..5 : i + k <= Len(r) => u[b + k] = r[i + k]
  <2> SUFFICES ASSUME NEW k \in 1..5, i + k <= Len(r) PROVE u[b + k] = r[i + k]
    OBVIOUS
  <2>1. i + k \in 1..Len(r) /\ b + k = Len(s) + (i + k)
    BY <1>1
  <2> QED BY <1>1, <2>1
<1>4. \A k \in 1..5 : b + k <= Len(u) <=> i + k <= Len(r)
  BY <1>1
<1> HIDE DEF b
<1>5. /\ i + 1 <= Len(r) => u[b + 1] = r[i + 1]
      /\ i + 5 <= Len(r) => /\ u[b + 2] = r[i + 2] /\ u[b + 3] = r[i + 3]
                            /\ u[b + 4] = r[i + 4] /\ u[b + 5] = r[i + 5]
      /\ b + 1 <= Len(u) <=> i + 1 <= Len(r)
      /\ b + 5 <= Len(u) <=> i + 5 <= Len(r)
  BY <1>1, <1>3, <1>4
<1>6. b < Len(u) <=> i < Len(r)
  BY <1>1, <1>2, <1>5
<1>7. i < Len(r) => u[b + 1] = r[i + 1]
  BY <1>1, <1>5
<1>8. IsCodePoint(u, b) <=> IsCodePoint(r, i)
  BY <1>2, <1>6, <1>7 DEF IsCodePoint
<1>9. CodePoint(u, b) = CodePoint(r, i)
  BY <1>5 DEF CodePoint
<1>10. WidthAt(u, b) = WidthAt(r, i) /\ CharAt(u, b) = CharAt(r, i)
  BY <1>2, <1>6, <1>7, <1>8, <1>9 DEF WidthAt, CharAt
<1> QED BY <1>10 DEF u, b

(* What is read of one string after the other is read of both.             *)
LEMMA JoinedReads ==
  ASSUME NEW s \in Seq(Byte), NEW t \in Seq(Byte), NEW r \in Seq(Byte), NEW w \in Seq(Byte),
         Reads(s, t), Reads(r, w)
  PROVE  Reads(s \o r, t \o w)
<1> DEFINE u == s \o r
           v == t \o w
<1>1. PICK at : Cuts(s, t, at)
  BY DEF Reads
<1>2. PICK bt : Cuts(r, w, bt)
  BY DEF Reads
<1> DEFINE ct == [n \in 1..(Len(v) + 1) |-> IF n <= Len(t) THEN at[n] ELSE Len(s) + bt[n - Len(t)]]
<1>3. /\ Len(s) \in Nat /\ Len(r) \in Nat /\ Len(t) \in Nat /\ Len(w) \in Nat
      /\ Len(u) = Len(s) + Len(r) /\ Len(v) = Len(t) + Len(w)
      /\ \A n \in 1..(Len(t) + Len(w)) : v[n] = IF n <= Len(t) THEN t[n] ELSE w[n - Len(t)]
  BY LenProperties, ConcatProperties
<1>4. /\ at \in [1..(Len(t) + 1) -> 1..(Len(s) + 1)] /\ at[1] = 1 /\ at[Len(t) + 1] = Len(s) + 1
      /\ \A n \in 1..Len(t) : /\ at[n + 1] = at[n] + WidthAt(s, at[n])
                              /\ CharAt(s, at[n]) = t[n]
  BY <1>1 DEF Cuts
<1>5. /\ bt \in [1..(Len(w) + 1) -> 1..(Len(r) + 1)] /\ bt[1] = 1 /\ bt[Len(w) + 1] = Len(r) + 1
      /\ \A n \in 1..Len(w) : /\ bt[n + 1] = bt[n] + WidthAt(r, bt[n])
                              /\ CharAt(r, bt[n]) = w[n]
  BY <1>2 DEF Cuts
<1> HIDE DEF u, v
<1>6. /\ \A n \in 1..(Len(t) + 1) : ct[n] = at[n]
      /\ \A n \in 1..(Len(w) + 1) : ct[Len(t) + n] = Len(s) + bt[n]
  <2>1. \A n \in 1..(Len(v) + 1) : ct[n] = IF n <= Len(t) THEN at[n] ELSE Len(s) + bt[n - Len(t)]
    OBVIOUS
  <2> HIDE DEF ct
  <2>2. ASSUME NEW n \in 1..(Len(w) + 1) PROVE ct[Len(t) + n] = Len(s) + bt[n]
    <3>1. Len(t) + n \in 1..(Len(v) + 1) /\ ~ (Len(t) + n <= Len(t)) /\ (Len(t) + n) - Len(t) = n
      BY <1>3
    <3> QED BY <2>1, <3>1
  <2>3. ASSUME NEW n \in 1..(Len(t) + 1) PROVE ct[n] = at[n]
    <3>1. CASE n <= Len(t)
      BY <1>3, <2>1, <3>1
    <3>2. CASE n = Len(t) + 1
      <4>1. ct[Len(t) + 1] = Len(s) + bt[1] /\ 1 \in 1..(Len(w) + 1)
        BY <1>3, <2>2
      <4> QED BY <1>4, <1>5, <3>2, <4>1
    <3> QED BY <1>3, <3>1, <3>2
  <2> QED BY <2>2, <2>3
<1>7. ct \in [1..(Len(v) + 1) -> 1..(Len(u) + 1)]
  <2> SUFFICES ASSUME NEW n \in 1..(Len(v) + 1)
               PROVE  (IF n <= Len(t) THEN at[n] ELSE Len(s) + bt[n - Len(t)]) \in 1..(Len(u) + 1)
    OBVIOUS
  <2>1. CASE n <= Len(t)
    <3>1. n \in 1..(Len(t) + 1)
      BY <1>3, <2>1
    <3>2. at[n] \in 1..(Len(s) + 1)
      BY <1>4, <3>1
    <3> QED BY <1>3, <2>1, <3>2
  <2>2. CASE ~ (n <= Len(t))
    <3>1. n - Len(t) \in 1..(Len(w) + 1)
      BY <1>3, <2>2
    <3>2. bt[n - Len(t)] \in 1..(Len(r) + 1)
      BY <1>5, <3>1
    <3> QED BY <1>3, <2>2, <3>2
  <2> QED BY <2>1, <2>2
<1> HIDE DEF ct
<1>8. ct[1] = 1 /\ ct[Len(v) + 1] = Len(u) + 1
  <2>1. 1 \in 1..(Len(t) + 1) /\ Len(w) + 1 \in 1..(Len(w) + 1) /\ Len(v) + 1 = Len(t) + (Len(w) + 1)
    BY <1>3
  <2>2. ct[1] = at[1]
    BY <1>6, <2>1
  <2>3. ct[Len(v) + 1] = Len(s) + bt[Len(w) + 1]
    BY <1>6, <2>1
  <2> QED BY <1>3, <1>4, <1>5, <2>2, <2>3
<1>9. ASSUME NEW n \in 1..Len(v)
      PROVE  ct[n + 1] = ct[n] + WidthAt(u, ct[n]) /\ CharAt(u, ct[n]) = v[n]
  <2>1. CASE n <= Len(t)
    <3>1. n \in 1..Len(t) /\ n \in 1..(Len(t) + 1) /\ n + 1 \in 1..(Len(t) + 1)
      BY <1>3, <2>1
    <3>2. /\ ct[n] = at[n] /\ ct[n + 1] = at[n + 1] /\ at[n] \in 1..(Len(s) + 1)
          /\ at[n + 1] \in 1..(Len(s) + 1) /\ at[n + 1] = at[n] + WidthAt(s, at[n])
          /\ CharAt(s, at[n]) = t[n] /\ v[n] = t[n]
      BY <1>3, <1>4, <1>6, <2>1, <3>1
    <3>3. at[n] \in 1..Len(s) /\ at[n] + WidthAt(s, at[n]) <= Len(s) + 1
      <4>1. WidthAt(s, at[n]) \in {1, 2, 6}
        BY Widths
      <4> QED BY <1>3, <3>2, <4>1
    <3>4. WidthAt(u, at[n]) = WidthAt(s, at[n]) /\ CharAt(u, at[n]) = CharAt(s, at[n])
      BY <3>3, BeforeOthers DEF u
    <3> QED BY <3>2, <3>4
  <2>2. CASE ~ (n <= Len(t))
    <3> DEFINE m == n - Len(t)
    <3>1. /\ m \in 1..Len(w) /\ m \in 1..(Len(w) + 1) /\ m + 1 \in 1..(Len(w) + 1)
          /\ n = Len(t) + m /\ n + 1 = Len(t) + (m + 1) /\ v[n] = w[m]
      BY <1>3, <2>2
    <3> HIDE DEF m
    <3>2. /\ ct[n] = Len(s) + bt[m] /\ ct[n + 1] = Len(s) + bt[m + 1] /\ bt[m] \in 1..(Len(r) + 1)
          /\ bt[m + 1] \in 1..(Len(r) + 1) /\ bt[m + 1] = bt[m] + WidthAt(r, bt[m])
          /\ CharAt(r, bt[m]) = w[m]
      BY <1>5, <1>6, <3>1
    <3>3. bt[m] \in 1..Len(r)
      <4>1. WidthAt(r, bt[m]) \in {1, 2, 6}
        BY Widths
      <4> QED BY <1>3, <3>2, <4>1
    <3>4. /\ WidthAt(u, Len(s) + bt[m]) = WidthAt(r, bt[m])
          /\ CharAt(u, Len(s) + bt[m]) = CharAt(r, bt[m])
      BY <3>3, AfterOthers DEF u
    <3>5. WidthAt(r, bt[m]) \in Nat
      BY Widths
    <3> QED BY <1>3, <3>1, <3>2, <3>4, <3>5
  <2> QED BY <2>1, <2>2
<1>10. Cuts(u, v, ct)
  BY <1>7, <1>8, <1>9 DEF Cuts
<1> QED BY <1>10 DEF Reads, u, v

(* A text without special bytes is read as it is ...                       *)
LEMMA PlainReads ==
  ASSUME NEW s \in Seq(Byte), \A i \in 1..Len(s) : ~ Special(s[i])
  PROVE  Reads(s, s)
<1> DEFINE at == [n \in 1..(Len(s) + 1) |-> n]
<1>1. Len(s) \in Nat
  BY LenProperties
<1>2. \A n \in 1..Len(s) : WidthAt(s, n) = 1 /\ CharAt(s, n) = s[n]
  BY DEF WidthAt, CharAt, IsCodePoint, Special
<1>3. Cuts(s, s, at)
  BY <1>1, <1>2 DEF Cuts
<1> QED BY <1>3 DEF Reads

LEMMA EmptyReads == Reads(<< >>, << >>)
<1> DEFINE s == << >>
<1>1. s \in Seq(Byte) /\ Len(s) = 0
  BY EmptySeq
<1> HIDE DEF s
<1>2. \A i \in 1..Len(s) : ~ Special(s[i])
  BY <1>1
<1>3. Reads(s, s)
  BY <1>1, <1>2, PlainReads
<1> QED BY <1>3 DEF s

(* ... and an escape as the byte it stands for.                            *)
LEMMA EscapeReads ==
  ASSUME NEW c \in Byte, Special(c)
  PROVE  Reads(Escape(c), << c >>)
<1> DEFINE s == Escape(c)
<1>1. SUFFICES Len(s) \in Nat \ {0} /\ WidthAt(s, 1) = Len(s) /\ CharAt(s, 1) = c
  <2> DEFINE at == [n \in 1..2 |-> IF n = 1 THEN 1 ELSE Len(s) + 1]
  <2> HIDE DEF s
  <2>1. Len(<< c >>) = 1 /\ << c >>[1] = c
    OBVIOUS
  <2>2. at \in [1..2 -> 1..(Len(s) + 1)] /\ at[1] = 1 /\ at[2] = Len(s) + 1
    BY <1>1
  <2> HIDE DEF at
  <2>3. Cuts(s, << c >>, at)
    BY <1>1, <2>1, <2>2 DEF Cuts
  <2> QED BY <2>3 DEF Reads, s
<1>2. CASE c \in {34, 92, 8, 12, 10, 13, 9}
  <2>1. PICK l \in {34, 92, 98, 102, 110, 114, 116} : s = << 92, l >> /\ Letter(l) = c
    BY <1>2 DEF Escape, Letter
  <2> HIDE DEF s
  <2>2. Len(s) = 2 /\ s[1] = 92 /\ s[2] = l /\ l # 117
    BY <2>1
  <2>3. ~ IsCodePoint(s, 1) /\ 1 < Len(s)
    BY <2>2 DEF IsCodePoint
  <2> QED BY <2>1, <2>2, <2>3 DEF WidthAt, CharAt
<1>3. CASE c \notin {34, 92, 8, 12, 10, 13, 9}
  <2> DEFINE h == c \div 16
             l == c % 16
  <2>1. c \in 0..31 /\ h \in 0..1 /\ l \in 0..15 /\ c = 16 * h + l
    BY <1>3 DEF Special, Byte
  <2>2. s = << 92, 117, 48, 48, HexChar(h), HexChar(l) >>
    BY <1>3 DEF Escape
  <2> HIDE DEF h, l, s
  <2>3. HexDigit(HexChar(h)) = h /\ HexDigit(HexChar(l)) = l
    BY <2>1 DEF HexDigit, HexChar
  <2>4. /\ Len(s) = 6 /\ s[1] = 92 /\ s[2] = 117 /\ s[3] = 48 /\ s[4] = 48
        /\ s[5] = HexChar(h) /\ s[6] = HexChar(l)
    BY <2>2
  <2>5. IsCodePoint(s, 1)
    BY <2>4 DEF IsCodePoint
  <2>6. CodePoint(s, 1) = c
    BY <2>1, <2>3, <2>4 DEF CodePoint
  <2> QED BY <2>4, <2>5, <2>6 DEF WidthAt, CharAt
<1> QED BY <1>2, <1>3

(* The reader of Unescape is defined by recursion from the end of a string *)
(* to its beginning: there is such a function.                             *)
Piece(s, f, i) == IF i > Len(s) THEN << >> ELSE << CharAt(s, i) >> \o f[i + WidthAt(s, i)]

LEMMA CanBeRead ==
  ASSUME NEW s, Len(s) \in Nat, NEW k \in 1..(Len(s) + 6)
  PROVE  \E f : f = [i \in k..(Len(s) + 6) |-> Piece(s, f, i)]
<1> DEFINE N == Len(s) + 6
           CanFrom(b) == \E f : f = [i \in b..N |-> Piece(s, f, i)]
           cannot == {d \in Nat : d < N /\ ~ CanFrom(N - d)}
<1>1. N \in Nat /\ N >= 6 /\ N - 6 = Len(s)
  OBVIOUS
<1> HIDE DEF CanFrom
<1>2. cannot = {}
  <2> SUFFICES ASSUME cannot # {} PROVE FALSE
    OBVIOUS
  <2>1. PICK d \in cannot : \A e \in cannot : d <= e
    BY Smallest
  <2>2. CASE d = 0
    <3> DEFINE f == [i \in N..N |-> << >>]
    <3>1. \A i \in N..N : Piece(s, f, i) = << >>
      BY <1>1 DEF Piece
    <3>2. f = [i \in N..N |-> Piece(s, f, i)]
      BY <3>1
    <3>3. CanFrom(N)
      BY <3>2 DEF CanFrom
    <3>4. N - d = N
      BY <1>1, <2>2
    <3> QED BY <2>1, <3>3, <3>4
  <2>3. CASE d # 0
    <3> DEFINE b == N - d
    <3>1. d \in Nat /\ d - 1 \in Nat /\ d - 1 < N /\ ~ (d <= d - 1) /\ N - (d - 1) = b + 1 /\ b \in 1..N
      BY <1>1, <2>1, <2>3
    <3>2. CanFrom(b + 1)
      <4>1. d - 1 \notin cannot
        BY <2>1, <3>1
      <4>2. CanFrom(N - (d - 1))
        BY <3>1, <4>1
      <4> QED BY <3>1, <4>2
    <3>3. ~ CanFrom(b)
      BY <2>1
    <3> HIDE DEF b, N
    <3>4. PICK f : f = [i \in (b + 1)..N |-> Piece(s, f, i)]
      BY <3>2 DEF CanFrom
    <3> DEFINE g == [i \in b..N |-> IF i = b THEN Piece(s, f, b) ELSE f[i]]
    <3>5. ASSUME NEW i \in b..N PROVE g[i] = Piece(s, g, i)
      <4>1. g[i] = Piece(s, f, i)
        <5>1. CASE i = b
          BY <5>1
        <5>2. CASE i # b
          <6>1. i \in (b + 1)..N
            BY <1>1, <3>1, <5>2
          <6>2. f[i] = Piece(s, f, i)
            BY <3>4, <6>1
          <6> QED BY <5>2, <6>2
        <5> QED BY <5>1, <5>2
      <4>2. i <= Len(s) => g[i + WidthAt(s, i)] = f[i + WidthAt(s, i)]
        <5> SUFFICES ASSUME i <= Len(s) PROVE g[i + WidthAt(s, i)] = f[i + WidthAt(s, i)]
          OBVIOUS
        <5>1. WidthAt(s, i) \in {1, 2, 6}
          BY Widths
        <5>2. i + WidthAt(s, i) \in b..N /\ i + WidthAt(s, i) # b
          BY <1>1, <3>1, <5>1
        <5> QED BY <5>2
      <4>3. i > Len(s) \/ i <= Len(s)
        BY <1>1, <3>1
      <4> HIDE DEF g
      <4> QED BY <4>1, <4>2, <4>3 DEF Piece
    <3>6. g = [i \in b..N |-> Piece(s, g, i)]
      <4>1. g = [i \in b..N |-> g[i]]
        OBVIOUS
      <4> HIDE DEF g
      <4> QED BY <3>5, <4>1
    <3> HIDE DEF g
    <3>7. CanFrom(b)
      BY <3>6 DEF CanFrom
    <3> QED BY <3>3, <3>7
  <2> QED BY <2>2, <2>3
<1>3. N - k \in Nat /\ N - k < N /\ N - (N - k) = k
  BY <1>1
<1>4. CanFrom(N - (N - k))
  BY <1>2, <1>3
<1> QED BY <1>3, <1>4 DEF CanFrom

(* What is read piece by piece is what Unescape reads.                     *)
LEMMA UnescapeReads ==
  ASSUME NEW s \in Seq(Byte), NEW t \in Seq(Byte), Reads(s, t)
  PROVE  Unescape(s) = t
<1> DEFINE N == Len(s) + 6
           read == CHOOSE f : f = [i \in 1..N |-> IF i > Len(s) THEN << >>
                                                  ELSE << CharAt(s, i) >> \o f[i + WidthAt(s, i)]]
<1>1. Len(s) \in Nat /\ Len(t) \in Nat /\ N \in Nat /\ 1 \in 1..N
  BY LenProperties
<1>2. \E f : f = [i \in 1..N |-> IF i > Len(s) THEN << >>
                                 ELSE << CharAt(s, i) >> \o f[i + WidthAt(s, i)]]
  BY <1>1, CanBeRead DEF Piece
<1>3. read = [i \in 1..N |-> IF i > Len(s) THEN << >>
                             ELSE << CharAt(s, i) >> \o read[i + WidthAt(s, i)]]
  BY <1>2
<1>4. Unescape(s) = read[1]
  BY DEF Unescape
<1> HIDE DEF read
<1>5. \A i \in 1..N : read[i] = IF i > Len(s) THEN << >>
                                ELSE << CharAt(s, i) >> \o read[i + WidthAt(s, i)]
  BY <1>3
<1>6. PICK at : Cuts(s, t, at)
  BY DEF Reads
<1>7. /\ at \in [1..(Len(t) + 1) -> 1..(Len(s) + 1)] /\ at[1] = 1 /\ at[Len(t) + 1] = Len(s) + 1
      /\ \A n \in 1..Len(t) : /\ at[n + 1] = at[n] + WidthAt(s, at[n])
                              /\ CharAt(s, at[n]) = t[n]
  BY <1>6 DEF Cuts
<1> DEFINE Rightly(n) == read[at[n]] = SubSeq(t, n, Len(t))
           wrong == {d \in Nat : d <= Len(t) /\ ~ Rightly(Len(t) + 1 - d)}
<1> HIDE DEF Rightly
<1>8. wrong = {}
  <2> SUFFICES ASSUME wrong # {} PROVE FALSE
    OBVIOUS
  <2>1. PICK d \in wrong : \A e \in wrong : d <= e
    BY Smallest
  <2> DEFINE n == Len(t) + 1 - d
  <2>2. d \in Nat /\ d <= Len(t) /\ ~ Rightly(n) /\ n \in 1..(Len(t) + 1)
    BY <1>1, <2>1
  <2>3. CASE d = 0
    <3>1. n = Len(t) + 1 /\ Len(s) + 1 \in 1..N /\ Len(s) + 1 > Len(s)
      BY <1>1, <2>3
    <3>2. read[at[n]] = << >>
      BY <1>5, <1>7, <3>1
    <3>3. SubSeq(t, n, Len(t)) = << >>
      BY <1>1, <3>1, SubSeqEmpty
    <3> QED BY <2>2, <3>2, <3>3 DEF Rightly
  <2>4. CASE d # 0
    <3>1. /\ d - 1 \in Nat /\ d - 1 <= Len(t) /\ ~ (d <= d - 1) /\ Len(t) + 1 - (d - 1) = n + 1
          /\ n \in 1..Len(t) /\ n + 1 \in 1..(Len(t) + 1)
      BY <1>1, <2>2, <2>4
    <3>2. Rightly(n + 1)
      <4>1. d - 1 \notin wrong
        BY <2>1, <3>1
      <4>2. Rightly(Len(t) + 1 - (d - 1))
        BY <3>1, <4>1
      <4> QED BY <3>1, <4>2
    <3> HIDE DEF n
    <3>3. /\ at[n] \in 1..(Len(s) + 1) /\ at[n + 1] \in 1..(Len(s) + 1)
          /\ at[n + 1] = at[n] + WidthAt(s, at[n]) /\ CharAt(s, at[n]) = t[n]
      BY <1>7, <2>2, <3>1
    <3>4. WidthAt(s, at[n]) \in {1, 2, 6}
      BY Widths
    <3>5. at[n] \in 1..N /\ ~ (at[n] > Len(s))
      BY <1>1, <3>3, <3>4
    <3>6. read[at[n]] = << t[n] >> \o SubSeq(t, n + 1, Len(t))
      BY <1>5, <3>2, <3>3, <3>5 DEF Rightly
    <3>7. SubSeq(t, n, n) = << t[n] >>
      <4>1. \A i \in n..n : t[i] \in Byte
        BY <3>1, ElementOfSeq
      <4>2. SubSeq(t, n, n) \in Seq(Byte) /\ Len(SubSeq(t, n, n)) = 1 /\ SubSeq(t, n, n)[1] = t[n]
        BY <3>1, <4>1, SubSeqProperties
      <4>3. t[n] \in Byte
        BY <3>1, ElementOfSeq
      <4>4. << t[n] >> \in Seq(Byte) /\ Len(<< t[n] >>) = 1 /\ << t[n] >>[1] = t[n]
        BY <4>3
      <4>5. \A i \in 1..Len(SubSeq(t, n, n)) : SubSeq(t, n, n)[i] = << t[n] >>[i]
        BY <4>2, <4>4
      <4> QED BY <4>2, <4>4, <4>5, SeqEqual
    <3>8. SubSeq(t, n, n) \o SubSeq(t, n + 1, Len(t)) = SubSeq(t, n, Len(t))
      <4>1. n \in 1..(Len(t) + 1) /\ n \in (n - 1)..Len(t) /\ Len(t) \in n..Len(t)
        BY <1>1, <3>1
      <4> QED BY <4>1, ConcatAdjacentSubSeq
    <3> QED BY <2>2, <3>6, <3>7, <3>8 DEF Rightly
  <2> QED BY <2>3, <2>4
<1>9. Rightly(1)
  <2>1. Len(t) \in Nat /\ Len(t) <= Len(t) /\ Len(t) + 1 - Len(t) = 1
    BY <1>1
  <2>2. Len(t) \notin wrong
    BY <1>8
  <2>3. Rightly(Len(t) + 1 - Len(t))
    BY <2>1, <2>2
  <2> QED BY <2>1, <2>3
<1>10. SubSeq(t, 1, Len(t)) = t
  <2>1. \A i \in 1..Len(t) : t[i] \in Byte
    BY ElementOfSeq
  <2>2. /\ SubSeq(t, 1, Len(t)) \in Seq(Byte) /\ Len(SubSeq(t, 1, Len(t))) = Len(t)
        /\ \A i \in 1..Len(t) : SubSeq(t, 1, Len(t))[i] = t[i]
    BY <1>1, <2>1, SubSeqProperties
  <2> QED BY <2>2, SeqEqual
<1> QED BY <1>4, <1>7, <1>9, <1>10 DEF Rightly

(* The response so far: a brace, a quote, and a string that reads as t.    *)
Opened(t) == \E string \in Seq(Byte) : sent = << 123, 34 >> \o string /\ Reads(string, t)

Sending ==
  /\ ended => pc = "complete"
  /\ pc = "text" => /\ stop \in 1..cursor /\ cursor \in 1..(FormEnd + 1)
                    /\ \A i \in stop..(cursor - 1) : ~ Special(Char(i))
                    /\ Opened(SubSeq(body, 1, stop - 1))
  /\ pc = "close" => Opened(Form)
  /\ pc = "complete" => \E string \in Seq(Byte) :
                          /\ sent = << 123, 34 >> \o string \o << 34, 125 >>
                          /\ Reads(string, Form)

(* The text up to the cursor, by the parts that are sent for it.           *)
LEMMA RestReads ==
  ASSUME IInv, Sending, pc = "text"
  PROVE  /\ Rest \in Seq(Byte) /\ (HasRest => Rest # << >>)
         /\ \E string \in Seq(Byte) : /\ sent \o Rest = << 123, 34 >> \o string
                                      /\ Reads(string, SubSeq(body, 1, cursor - 1))
<1>1. /\ body \in Seq(Byte) /\ Len(body) \in Nat /\ stop \in Nat \ {0} /\ cursor \in Nat \ {0}
      /\ stop <= cursor /\ cursor <= FormEnd + 1 /\ FormEnd \in 0..Len(body)
      /\ \A i \in stop..(cursor - 1) : ~ Special(Char(i))
      /\ Opened(SubSeq(body, 1, stop - 1))
  BY FormEndFacts, LenProperties DEF IInv, TypeOK, Sending
<1>2. \A i \in 1..(cursor - 1) : /\ i \in 1..FormEnd /\ i \in 1..Len(body)
                                  /\ body[i] \in Byte /\ Char(i) = body[i]
  <2>1. \A i \in 1..(cursor - 1) : i \in 1..FormEnd /\ i \in 1..Len(body)
    BY <1>1
  <2> QED BY <1>1, <2>1, ElementOfSeq DEF Char
<1>3. /\ Rest \in Seq(Byte) /\ Len(Rest) = IF stop <= cursor - 1 THEN cursor - stop ELSE 0
      /\ \A i \in 1..(cursor - stop) : Rest[i] = body[stop + i - 1]
  <2>1. \A i \in stop..(cursor - 1) : body[i] \in Byte
    BY <1>1, <1>2
  <2>2. /\ Rest \in Seq(Byte)
        /\ Len(Rest) = IF stop <= cursor - 1 THEN (cursor - 1) - stop + 1 ELSE 0
        /\ \A i \in 1..((cursor - 1) - stop + 1) : Rest[i] = body[stop + i - 1]
    BY <1>1, <2>1, SubSeqProperties DEF Rest
  <2> QED BY <1>1, <2>2
<1>4. HasRest => Rest # << >>
  <2>1. HasRest => Len(Rest) # 0
    BY <1>1, <1>3 DEF HasRest
  <2> QED BY <2>1, EmptySeq
<1>5. \A i \in 1..Len(Rest) : ~ Special(Rest[i])
  <2> TAKE i \in 1..Len(Rest)
  <2>1. i \in 1..(cursor - stop) /\ stop + i - 1 \in stop..(cursor - 1) /\ stop + i - 1 \in 1..(cursor - 1)
    BY <1>1, <1>3
  <2> QED BY <1>1, <1>2, <1>3, <2>1
<1>6. Reads(Rest, Rest)
  BY <1>3, <1>5, PlainReads
<1>7. SubSeq(body, 1, stop - 1) \in Seq(Byte)
  <2>1. \A i \in 1..(stop - 1) : body[i] \in Byte
    BY <1>1, <1>2
  <2> QED BY <1>1, <2>1, SubSeqProperties
<1>8. SubSeq(body, 1, stop - 1) \o Rest = SubSeq(body, 1, cursor - 1)
  <2>1. /\ 1 \in 1..(Len(body) + 1) /\ stop - 1 \in (1 - 1)..Len(body)
        /\ cursor - 1 \in (stop - 1)..Len(body) /\ (stop - 1) + 1 = stop
    BY <1>1
  <2> QED BY <1>1, <2>1, ConcatAdjacentSubSeq DEF Rest
<1>9. PICK string \in Seq(Byte) : /\ sent = << 123, 34 >> \o string
                                  /\ Reads(string, SubSeq(body, 1, stop - 1))
  BY <1>1 DEF Opened
<1>10. Reads(string \o Rest, SubSeq(body, 1, cursor - 1))
  BY <1>3, <1>6, <1>7, <1>8, <1>9, JoinedReads
<1>11. string \o Rest \in Seq(Byte) /\ sent \o Rest = << 123, 34 >> \o (string \o Rest)
  <2>1. << 123, 34 >> \in Seq(Byte)
    BY DEF Byte
  <2> QED BY <1>3, <1>9, <2>1, ConcatProperties, ConcatAssociative
<1> QED BY <1>3, <1>4, <1>10, <1>11

LEMMA TextKeeps ==
  ASSUME IInv, Sending, Text
  PROVE  Sending'
<1>1. /\ pc = "text" /\ pc' = "text" /\ body' = body /\ kind' = kind /\ cursor' = cursor + 1
      /\ Char(cursor) # 0 /\ UNCHANGED request
  BY DEF Text, request
<1>2. /\ body \in Seq(Byte) /\ Len(body) \in Nat /\ stop \in Nat \ {0} /\ cursor \in Nat \ {0}
      /\ stop <= cursor /\ cursor <= FormEnd + 1 /\ FormEnd \in 0..Len(body)
      /\ \A i \in stop..(cursor - 1) : ~ Special(Char(i))
      /\ Opened(SubSeq(body, 1, stop - 1)) /\ Char(FormEnd + 1) = 0 /\ ~ ended
  BY <1>1, FormEndFacts, LenProperties DEF IInv, TypeOK, Sending
<1>3. cursor \in 1..FormEnd /\ cursor' \in 1..(FormEnd + 1) /\ cursor' - 1 = cursor
  BY <1>1, <1>2
<1>4. FormEnd' = FormEnd /\ \A i : Char(i)' = Char(i)
  BY <1>1, SameForm
<1>5. CASE Special(Char(cursor))
  <2> DEFINE c == Char(cursor)
  <2>1. SendRest(Escape(c)) /\ stop' = cursor + 1
    BY <1>1, <1>5 DEF Text
  <2>2. c \in Byte /\ c = body[cursor] /\ cursor \in 1..Len(body)
    BY <1>2, <1>3, CharIsByte DEF Char
  <2>3. Escape(c) \in Seq(Byte) /\ Reads(Escape(c), << c >>)
    BY <1>5, <2>2, EscapeIsBytes, EscapeReads
  <2>4. Rest \in Seq(Byte) /\ (HasRest => Rest # << >>)
    BY <1>1, RestReads
  <2>5. PICK string \in Seq(Byte) : /\ sent \o Rest = << 123, 34 >> \o string
                                    /\ Reads(string, SubSeq(body, 1, cursor - 1))
    BY <1>1, RestReads
  <2> HIDE DEF c
  <2>6. SubSeq(body, 1, cursor - 1) \in Seq(Byte) /\ << c >> \in Seq(Byte)
    <3>1. \A i \in 1..(cursor - 1) : body[i] \in Byte
      BY <1>2, <1>3, ElementOfSeq
    <3> QED BY <1>2, <2>2, <3>1, SubSeqProperties
  <2>7. SubSeq(body, 1, cursor - 1) \o << c >> = SubSeq(body, 1, cursor)
    <3>1. SubSeq(body, cursor, cursor) = << c >>
      <4>1. \A i \in cursor..cursor : body[i] \in Byte
        BY <1>2, <2>2
      <4>2. /\ SubSeq(body, cursor, cursor) \in Seq(Byte) /\ Len(SubSeq(body, cursor, cursor)) = 1
            /\ SubSeq(body, cursor, cursor)[1] = c
        BY <1>2, <2>2, <4>1, SubSeqProperties
      <4>3. Len(<< c >>) = 1 /\ << c >>[1] = c
        OBVIOUS
      <4>4. \A i \in 1..Len(SubSeq(body, cursor, cursor)) : SubSeq(body, cursor, cursor)[i] = << c >>[i]
        BY <4>2, <4>3
      <4> QED BY <2>6, <4>2, <4>3, <4>4, SeqEqual
    <3>2. /\ 1 \in 1..(Len(body) + 1) /\ cursor - 1 \in (1 - 1)..Len(body)
          /\ cursor \in (cursor - 1)..Len(body) /\ (cursor - 1) + 1 = cursor
      BY <1>2, <2>2
    <3>3. SubSeq(body, 1, cursor - 1) \o SubSeq(body, cursor, cursor) = SubSeq(body, 1, cursor)
      BY <1>2, <3>2, ConcatAdjacentSubSeq
    <3> QED BY <3>1, <3>3
  <2>8. Reads(string \o Escape(c), SubSeq(body, 1, cursor))
    BY <2>3, <2>5, <2>6, <2>7, JoinedReads
  <2>9. sent' = << 123, 34 >> \o (string \o Escape(c)) /\ string \o Escape(c) \in Seq(Byte)
    <3>1. sent' = (sent \o Rest) \o Escape(c)
      BY <2>1 DEF SendRest, c
    <3>2. << 123, 34 >> \in Seq(Byte)
      BY DEF Byte
    <3> QED BY <2>3, <2>5, <3>1, <3>2, ConcatProperties, ConcatAssociative
  <2>10. ~ ended'
    BY <1>2, <2>1, <2>4 DEF SendRest
  <2>11. stop' - 1 = cursor /\ stop' \in 1..cursor' /\ stop'..(cursor' - 1) = {}
    BY <1>1, <1>2, <2>1
  <2>12. Opened(SubSeq(body, 1, stop - 1))'
    BY <1>1, <2>8, <2>9, <2>11 DEF Opened
  <2> QED BY <1>1, <1>3, <1>4, <2>10, <2>11, <2>12 DEF Sending
<1>6. CASE ~ Special(Char(cursor))
  <2>1. stop' = stop /\ sent' = sent /\ ended' = ended
    BY <1>6 DEF Text, sending
  <2>2. \A i \in stop'..(cursor' - 1) : ~ Special(Char(i)')
    <3>1. \A i \in stop..cursor : i \in stop..(cursor - 1) \/ i = cursor
      BY <1>2
    <3> QED BY <1>2, <1>3, <1>4, <1>6, <2>1, <3>1
  <2>3. Opened(SubSeq(body, 1, stop - 1))'
    BY <1>1, <1>2, <2>1 DEF Opened
  <2>4. stop' \in 1..cursor'
    BY <1>1, <1>2, <2>1
  <2>5. (\A i \in stop..(cursor - 1) : ~ Special(Char(i)))'
    BY <2>2
  <2> QED BY <1>1, <1>2, <1>3, <1>4, <2>1, <2>3, <2>4, <2>5 DEF Sending
<1> QED BY <1>5, <1>6

LEMMA OpenTextKeeps ==
  ASSUME IInv, Sending, OpenText
  PROVE  Sending'
<1>1. /\ pc = "open" /\ pc' = "text" /\ sent' = << 123, 34 >> /\ ended' = ended
      /\ UNCHANGED << request, reading >> /\ cursor' = 1 /\ stop' = 1 /\ body' = body
  BY DEF OpenText, reading, request, IInv, Blank
<1>2. << 123, 34 >> \in Seq(Byte) /\ << >> \in Seq(Byte)
  BY DEF Byte
<1>3. sent' = << 123, 34 >> \o << >>
  BY <1>1, <1>2, ConcatEmptySeq
<1>4. SubSeq(body', 1, stop' - 1) = << >>
  <2>1. stop' - 1 = 0
    BY <1>1
  <2> QED BY <2>1, SubSeqEmpty
<1>5. Opened(SubSeq(body, 1, stop - 1))'
  BY <1>2, <1>3, <1>4, EmptyReads DEF Opened
<1>6. FormEnd' \in Nat
  <2>1. FormEnd' = FormEnd
    BY <1>1, SameForm
  <2>2. FormEnd \in 0..Len(body) /\ Len(body) \in Nat
    BY FormEndFacts, LenProperties DEF IInv, TypeOK
  <2> QED BY <2>1, <2>2
<1>7. stop' \in 1..cursor' /\ cursor' \in 1..(FormEnd' + 1) /\ stop'..(cursor' - 1) = {}
  <2>1. \A n \in Nat : 1 \in 1..(n + 1)
    OBVIOUS
  <2>2. cursor' \in 1..(FormEnd' + 1)
    BY <1>1, <1>6, <2>1
  <2>3. 1 \in 1..1 /\ 1..(1 - 1) = {}
    OBVIOUS
  <2> QED BY <1>1, <2>2, <2>3
<1> QED BY <1>1, <1>5, <1>7 DEF Sending

LEMMA EndTextKeeps ==
  ASSUME IInv, Sending, EndText
  PROVE  Sending'
<1>1. /\ pc = "text" /\ pc' = "close" /\ SendRest(<< >>) /\ Char(cursor) = 0
      /\ UNCHANGED request /\ body' = body /\ ~ ended
  BY DEF EndText, request, Sending
<1>2. Form' = Form
  <2>1. FormEnd' = FormEnd
    BY <1>1, SameForm
  <2> QED BY <1>1, <2>1 DEF Form
<1>3. cursor - 1 = FormEnd
  <2>1. cursor \in 1..(FormEnd + 1) /\ FormEnd \in Nat /\ \A i \in 1..FormEnd : Char(i) # 0
    BY <1>1, FormEndFacts, LenProperties DEF IInv, TypeOK, Sending
  <2> QED BY <1>1, <2>1
<1>4. Rest \in Seq(Byte) /\ (HasRest => Rest # << >>)
  BY <1>1, RestReads
<1>5. PICK string \in Seq(Byte) : /\ sent \o Rest = << 123, 34 >> \o string
                                  /\ Reads(string, SubSeq(body, 1, cursor - 1))
  BY <1>1, RestReads
<1>6. sent' = << 123, 34 >> \o string /\ ~ ended'
  <2>1. sent \o Rest \in Seq(Byte)
    BY <1>4, ConcatProperties DEF IInv, TypeOK
  <2>2. sent' = (sent \o Rest) \o << >>
    BY <1>1 DEF SendRest
  <2> QED BY <1>1, <1>4, <1>5, <2>1, <2>2, ConcatEmptySeq DEF SendRest
<1>7. Opened(Form)'
  BY <1>2, <1>3, <1>5, <1>6 DEF Opened, Form
<1> QED BY <1>1, <1>6, <1>7 DEF Sending

LEMMA CloseTextKeeps ==
  ASSUME IInv, Sending, CloseText
  PROVE  Sending'
<1>1. /\ pc = "close" /\ pc' = "complete" /\ sent' = sent \o << 34, 125 >> /\ UNCHANGED request
  BY DEF CloseText
<1>2. Form' = Form
  <2>1. FormEnd' = FormEnd /\ body' = body
    BY <1>1, SameForm DEF request
  <2> QED BY <2>1 DEF Form
<1>3. PICK string \in Seq(Byte) : sent = << 123, 34 >> \o string /\ Reads(string, Form)
  BY <1>1 DEF Sending, Opened
<1> QED BY <1>1, <1>2, <1>3 DEF Sending

(* Nothing else goes on with a response, or ends it.                       *)
LEMMA OthersKeepSending ==
  ASSUME IInv, Sending, [Next]_vars, ~ (OpenText \/ Text \/ EndText \/ CloseText)
  PROVE  Sending'
<1>1. CASE UNCHANGED vars
  <2>1. UNCHANGED << pc, request, reading, sending >>
    BY <1>1 DEF vars
  <2>2. FormEnd' = FormEnd /\ body' = body /\ \A i : Char(i)' = Char(i)
    BY <2>1, SameForm DEF request
  <2>3. Form' = Form /\ \A t : Opened(t)' <=> Opened(t)
    BY <2>1, <2>2 DEF Form, Opened, sending
  <2>4. Opened(SubSeq(body, 1, stop - 1))' <=> Opened(SubSeq(body, 1, stop - 1))
    BY <2>1, <2>2 DEF Opened, reading, sending
  <2>5. Opened(Form)' <=> Opened(Form)
    BY <2>1, <2>3 DEF Opened, sending
  <2> QED BY <2>1, <2>2, <2>3, <2>4, <2>5 DEF Sending, reading, sending
<1>2. CASE Next /\ ~ (OpenText \/ Text \/ EndText \/ CloseText)
  <2>1. /\ pc' \notin {"text", "close", "complete"}
        /\ ~ ended' \/ (ended' = ended /\ pc # "complete")
    <3>1. CASE Return
      <4>1. pc' = "idle" /\ ~ ended'
        BY <3>1 DEF Return
      <4> QED BY <4>1
    <3>2. CASE Call \/ Receive \/ Close \/ Refuse \/ SendFails \/ TakeValue \/ TakeDigits
      BY <3>2 DEF Call, Receive, MayReceive, Close, Refuse, SendFails, TakeValue, TakeDigits, Decoding,
         reading, sending
    <3>3. CASE Field \/ Decode \/ TakeSsid \/ TakeIndex \/ Digit
      BY <3>3 DEF Field, Decode, TakeSsid, TakeIndex, Digit, Decoding, sending
    <3>4. CASE NotFound \/ DecodeFails
      BY <3>4 DEF NotFound, DecodeFails, Fails, sending
    <3> QED BY <1>2, <3>1, <3>2, <3>3, <3>4 DEF Next, Parse
  <2>2. ~ ended'
    BY <2>1 DEF Sending
  <2> QED BY <2>1, <2>2 DEF Sending
<1> QED BY <1>1, <1>2

LEMMA QuotedString ==
  ASSUME NEW string \in Seq(Byte), NEW w, w = << 123, 34 >> \o string \o << 34, 125 >>
  PROVE  SubSeq(w, 3, Len(w) - 2) = string
<1> DEFINE a == << 123, 34 >>
           z == << 34, 125 >>
<1>1. /\ a \in Seq(Byte) /\ z \in Seq(Byte) /\ Len(a) = 2 /\ Len(z) = 2 /\ Len(string) \in Nat
      /\ w = (a \o string) \o z
  BY LenProperties DEF Byte
<1> HIDE DEF a, z
<1>2. /\ a \o string \in Seq(Byte) /\ Len(a \o string) = Len(string) + 2
      /\ \A i \in 1..(Len(string) + 2) : (a \o string)[i] = IF i <= 2 THEN a[i] ELSE string[i - 2]
  <2>1. /\ a \o string \in Seq(Byte) /\ Len(a \o string) = Len(a) + Len(string)
        /\ \A i \in 1..(Len(a) + Len(string)) :
             (a \o string)[i] = IF i <= Len(a) THEN a[i] ELSE string[i - Len(a)]
    BY <1>1, ConcatProperties
  <2> QED BY <1>1, <2>1
<1>3. /\ w \in Seq(Byte) /\ Len(w) = Len(string) + 4
      /\ \A i \in 1..(Len(string) + 2) : w[i] = (a \o string)[i]
  <2>1. /\ w \in Seq(Byte) /\ Len(w) = Len(a \o string) + Len(z)
        /\ \A i \in 1..(Len(a \o string) + Len(z)) :
             w[i] = IF i <= Len(a \o string) THEN (a \o string)[i] ELSE z[i - Len(a \o string)]
    BY <1>1, <1>2, ConcatProperties
  <2> QED BY <1>1, <1>2, <2>1
<1> DEFINE s == SubSeq(w, 3, Len(w) - 2)
<1>4. s \in Seq(Byte) /\ Len(s) = Len(string) /\ \A i \in 1..Len(string) : s[i] = w[i + 2]
  <2>1. Len(w) - 2 = Len(string) + 2
    BY <1>1, <1>3
  <2>2. \A i \in 3..(Len(string) + 2) : w[i] \in Byte
    BY <1>1, <1>3, ElementOfSeq
  <2>3. /\ SubSeq(w, 3, Len(string) + 2) \in Seq(Byte)
        /\ Len(SubSeq(w, 3, Len(string) + 2))
             = IF 3 <= Len(string) + 2 THEN (Len(string) + 2) - 3 + 1 ELSE 0
        /\ \A i \in 1..((Len(string) + 2) - 3 + 1) :
             SubSeq(w, 3, Len(string) + 2)[i] = w[3 + i - 1]
    BY <1>1, <2>2, SubSeqProperties
  <2> QED BY <1>1, <2>1, <2>3
<1> HIDE DEF s
<1>5. \A i \in 1..Len(string) : s[i] = string[i]
  <2> TAKE i \in 1..Len(string)
  <2>1. i + 2 \in 1..(Len(string) + 2) /\ ~ (i + 2 <= 2) /\ (i + 2) - 2 = i
    BY <1>1
  <2> QED BY <1>2, <1>3, <1>4, <2>1
<1>6. s = string
  BY <1>4, <1>5, SeqEqual
<1> QED BY <1>6 DEF s

LEMMA SendingArrives == IInv /\ Sending => TextArrives
<1> SUFFICES ASSUME IInv, Sending, ended PROVE TextArrives
  BY DEF TextArrives
<1>1. pc = "complete"
  BY DEF Sending
<1>2. PICK string \in Seq(Byte) : /\ sent = << 123, 34 >> \o string \o << 34, 125 >>
                                  /\ Reads(string, Form)
  BY <1>1 DEF Sending
<1>3. SubSeq(sent, 3, Len(sent) - 2) = string
  BY <1>2, QuotedString
<1>4. Unescape(string) = Form
  BY <1>2, FormChars, UnescapeReads DEF IInv, TypeOK
<1> QED BY <1>1, <1>2, <1>3, <1>4 DEF TextArrives

(* Whatever the bytes of a text are, a client that got the end of the      *)
(* response got all of it, and reads the text.                             *)
THEOREM TextComesWhole == Spec => []TextArrives
<1>1. Init => Sending
  BY DEF Init, Sending
<1>2. IInv /\ Sending /\ [Next]_vars => Sending'
  BY OpenTextKeeps, TextKeeps, EndTextKeeps, CloseTextKeeps, OthersKeepSending
<1> QED BY <1>1, <1>2, SendingArrives, Inductive, PTL DEF Spec

=============================================================================
