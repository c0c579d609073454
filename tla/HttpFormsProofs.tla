--------------------------- MODULE HttpFormsProofs --------------------------
(***************************************************************************)
(* Proofs about the loops of provisioning_http.c and form_profile_policy.c *)
(* for bodies of any length and any bytes, keys, and sizes of buffers: no  *)
(* loop leaves its buffers and no index exceeds what is allowed.           *)
(***************************************************************************)
EXTENDS HttpForms, SequenceTheorems, TLAPS

(* A request starts with the positions of a call that has just begun.      *)
Blank ==
  /\ pc = "idle" => received = 0 /\ out = << >> /\ kind = "value"
  /\ pc \in {"idle", "receive", "open"} => cursor = 1 /\ stop = 1
  /\ cursor >= 1 /\ stop >= 1

IInv == TypeOK /\ InBounds /\ Blank

----------------------------------------------------------------------------
(* Every byte of the C string is one. *)
LEMMA CharIsByte ==
  ASSUME body \in Seq(Byte), NEW i
  PROVE  /\ Char(i) \in Byte
         /\ Char(i) # 0 => i \in 1..Len(body)
<1>1. CASE i \in 1..Len(body)
  BY <1>1, ElementOfSeq DEF Char
<1>2. CASE i \notin 1..Len(body)
  BY <1>2 DEF Char, Byte
<1> QED BY <1>1, <1>2

LEMMA HexRange == \A c \in Byte : HexDigit(c) \in -1..15
BY DEF HexDigit, Byte

(* A byte that is decoded is one of a C string. *)
LEMMA DecodedIsByte ==
  ASSUME body \in Seq(Byte), NEW i \in Nat, Decodable(i)
  PROVE  Decoded(i) \in 1..255
<1>1. Char(i) \in Byte /\ Char(i + 1) \in Byte /\ Char(i + 2) \in Byte
  BY CharIsByte
<1>2. HexDigit(Char(i + 1)) \in -1..15 /\ HexDigit(Char(i + 2)) \in -1..15
  BY <1>1, HexRange
<1>3. CASE Char(i) = 37
  <2> DEFINE high == HexDigit(Char(i + 1))
             low == HexDigit(Char(i + 2))
  <2>1. high >= 0 /\ low >= 0 /\ Decoded(i) # 0
    BY <1>3 DEF Decodable, IsEscape
  <2>2. Decoded(i) = 16 * high + low
    BY <1>3 DEF Decoded
  <2>3. high \in 0..15 /\ low \in 0..15
    BY <1>2, <2>1
  <2> HIDE DEF high, low
  <2> QED BY <2>1, <2>2, <2>3
<1>4. CASE Char(i) # 37
  BY <1>1, <1>4 DEF Decodable, Decoded, Byte
<1> QED BY <1>3, <1>4

(* An escape is made of bytes. *)
LEMMA EscapeIsBytes ==
  ASSUME NEW c \in Byte, Special(c)
  PROVE  Escape(c) \in Seq(Byte)
<1>2. \A l \in Byte : << 92, l >> \in Seq(Byte)
  BY DEF Byte
<1>3. CASE c \in {34, 92, 8, 12, 10, 13, 9}
  <2>1. Escape(c) \in {<< 92, l >> : l \in {34, 92, 98, 102, 110, 114, 116}}
    BY <1>3 DEF Escape
  <2>2. {34, 92, 98, 102, 110, 114, 116} \subseteq Byte
    BY DEF Byte
  <2> QED BY <1>2, <2>1, <2>2
<1>4. CASE c \notin {34, 92, 8, 12, 10, 13, 9}
  <2>1. c < 32 /\ c \div 16 \in 0..1 /\ c % 16 \in 0..15
    BY <1>4 DEF Special, Byte
  <2>2. HexChar(c \div 16) \in Byte /\ HexChar(c % 16) \in Byte
    BY <2>1 DEF HexChar, Byte
  <2>3. Escape(c) = << 92, 117, 48, 48, HexChar(c \div 16), HexChar(c % 16) >>
    BY <1>4 DEF Escape
  <2> QED BY <2>2, <2>3 DEF Byte
<1> QED BY <1>3, <1>4

(* The guard that form_profile_index_get asks before it multiplies is      *)
(* enough for any bound.                                                   *)
LEMMA FitsBounds ==
  ASSUME index \in Nat, NEW d \in 0..9, Fits(d)
  PROVE  index * 10 + d \in 0..(IndexMax - 1)
<1> DEFINE q == (IndexMax - 1) \div 10
           r == (IndexMax - 1) % 10
<1>1. q \in Nat /\ r \in 0..9 /\ IndexMax - 1 = 10 * q + r
  BY SizesAssumption
<1>2. index < q \/ (index = q /\ d <= r)
  BY DEF Fits
<1> HIDE DEF q, r
<1> QED BY <1>1, <1>2, SizesAssumption

----------------------------------------------------------------------------
LEMMA Empty == << >> \in Seq(Byte) /\ << >> \in Seq(1..255) /\ Len(<< >>) = 0
BY EmptySeq

LEMMA InitInv == Init => IInv
<1> SUFFICES ASSUME Init PROVE IInv
  OBVIOUS
<1>1. TypeOK
  BY Empty, KeysAssumption DEF Init, TypeOK, Pc, Kinds
<1>2. InBounds
  BY Empty, SizesAssumption DEF Init, InBounds, OutMax
<1>3. Blank
  BY DEF Init, Blank
<1> QED BY <1>1, <1>2, <1>3 DEF IInv

LEMMA CallInv == IInv /\ Call => IInv'
<1> SUFFICES ASSUME IInv, Call PROVE IInv'
  OBVIOUS
<1> USE DEF IInv, TypeOK, InBounds, Blank
<1>1. body' \in Seq(Byte) /\ Len(body') \in Nat
  BY BodiesAssumption, LenProperties DEF Call
<1>2. pc' \in {"receive", "open"} /\ kind' \in Kinds /\ UNCHANGED << reading, sending >>
  BY DEF Call, Kinds
<1>3. Len(out') = 0 /\ received' = 0 /\ cursor' = 1 /\ stop' = 1
  BY <1>2, EmptySeq DEF Call, reading
<1>4. OutMax' \in Nat \ {0}
  BY SizesAssumption DEF OutMax
<1> QED BY <1>1, <1>2, <1>3, <1>4 DEF Pc, Ends, reading, sending

LEMMA ReturnInv == IInv /\ Return => IInv'
<1> SUFFICES ASSUME IInv, Return PROVE IInv'
  OBVIOUS
<1>1. TypeOK'
  BY Empty, KeysAssumption DEF Return, TypeOK, Pc, Kinds
<1>2. InBounds'
  BY Empty, SizesAssumption DEF Return, InBounds, OutMax
<1>3. Blank'
  BY DEF Return, Blank
<1> QED BY <1>1, <1>2, <1>3 DEF IInv

(* The steps that only move the server, or add to what came.               *)
LEMMA MoveInv ==
  IInv /\ (Refuse \/ Receive \/ Close \/ TakeValue \/ TakeDigits \/ SendFails) => IInv'
<1> SUFFICES ASSUME IInv, Refuse \/ Receive \/ Close \/ TakeValue \/ TakeDigits \/ SendFails
             PROVE  IInv'
  OBVIOUS
<1> USE DEF IInv, TypeOK, InBounds, Blank, request, reading, sending
<1>1. Len(body) \in Nat
  BY LenProperties
<1>2. CASE Receive
  BY <1>1, <1>2 DEF Receive, MayReceive, Pc, Ends, OutMax
<1>3. CASE ~Receive
  BY <1>1, <1>3 DEF Refuse, Close, MayReceive, TakeValue, TakeDigits, SendFails, Pc, Ends, OutMax
<1> QED BY <1>2, <1>3

LEMMA FieldInv == IInv /\ Field => IInv'
<1> SUFFICES ASSUME IInv, Field PROVE IInv'
  OBVIOUS
<1> USE DEF IInv, TypeOK, InBounds, Blank, request, sending
<1>1. Len(body) \in Nat
  BY LenProperties
<1>2. PICK e \in cursor..(Len(body) + 1) :
        /\ IsFieldEnd(cursor, e)
        /\ \/ \E eq \in cursor..(e - 1) :
                 cursor' = eq + 1 /\ stop' = e /\ pc' = "decode"
           \/ cursor' = NextField(e) /\ UNCHANGED << stop, pc >>
  BY DEF Field
<1>3. Char(e) = 38 => e <= Len(body)
  BY CharIsByte
<1>4. e \in Nat /\ NextField(e) \in 1..(Len(body) + 1)
  BY <1>1, <1>2, <1>3 DEF NextField
<1>5. pc = "field" /\ UNCHANGED << request, received, key, out, first, index, sending >>
  BY DEF Field
<1>6. CASE \E eq \in cursor..(e - 1) : cursor' = eq + 1 /\ stop' = e /\ pc' = "decode"
  BY <1>1, <1>2, <1>4, <1>5, <1>6 DEF Pc, Ends, OutMax
<1>7. CASE cursor' = NextField(e) /\ UNCHANGED << stop, pc >>
  BY <1>1, <1>4, <1>5, <1>7 DEF Pc, Ends, OutMax
<1> QED BY <1>2, <1>6, <1>7

LEMMA FailsInv == IInv /\ (NotFound \/ DecodeFails) => IInv'
<1> SUFFICES ASSUME IInv, NotFound \/ DecodeFails PROVE IInv'
  OBVIOUS
<1>1. Fails
  BY DEF NotFound, DecodeFails
<1>2. OutMax \in Nat \ {0} /\ Len(<< >>) = 0 /\ << >> \in Seq(1..255)
  BY SizesAssumption, EmptySeq DEF OutMax
<1> QED BY <1>1, <1>2
        DEF Fails, IInv, TypeOK, InBounds, Blank, Pc, Ends, OutMax, request, sending

LEMMA DecodeInv == IInv /\ Decode => IInv'
<1> SUFFICES ASSUME IInv, Decode PROVE IInv'
  OBVIOUS
<1> USE DEF IInv, TypeOK, InBounds, Blank, request, sending
<1>1. Len(body) \in Nat /\ Len(out) \in Nat
  BY LenProperties
<1>2. Decoded(cursor) \in 1..255
  BY DecodedIsByte DEF Decode
<1>3. out' \in Seq(1..255) /\ Len(out') = Len(out) + 1
  BY <1>2, AppendProperties DEF Decode
<1>4. Len(out') < OutMax'
  BY <1>1, <1>3 DEF Decode, HasRoom, OutMax
<1>5. cursor' \in Nat /\ cursor' >= 1 /\ cursor' <= stop
  BY DEF Decode, Decodable, IsEscape
<1> QED BY <1>3, <1>4, <1>5 DEF Decode, Pc, Ends

LEMMA TakeInv == IInv /\ (TakeSsid \/ TakeIndex) => IInv'
<1> SUFFICES ASSUME IInv, TakeSsid \/ TakeIndex PROVE IInv'
  OBVIOUS
<1> USE DEF IInv, TypeOK, InBounds, Blank, request, sending
<1>1. Len(body) \in Nat
  BY LenProperties
<1>2. OutMax \in Nat \ {0} /\ Len(<< >>) = 0 /\ << >> \in Seq(1..255)
  BY SizesAssumption, EmptySeq DEF OutMax
<1>3. CASE TakeSsid
  <2>1. CASE out = << >>
    BY <1>1, <1>2, <1>3, <2>1 DEF TakeSsid, Decoding, Pc, Ends, OutMax
  <2>2. CASE out # << >>
    <3>1. TypeOK'
      BY <1>2, <1>3, <2>2 DEF TakeSsid, Decoding, Pc
    <3>2. InBounds' /\ Blank'
      BY <1>1, <1>2, <1>3, <2>2 DEF TakeSsid, Decoding, OutMax
    <3> QED BY <3>1, <3>2
  <2> QED BY <2>1, <2>2
<1>4. CASE TakeIndex
  BY <1>1, <1>4 DEF TakeIndex, Decoding, Pc, Ends, OutMax
<1> QED BY <1>3, <1>4

LEMMA DigitInv == IInv /\ Digit => IInv'
<1> SUFFICES ASSUME IInv, Digit PROVE IInv'
  OBVIOUS
<1> USE DEF IInv, TypeOK, InBounds, Blank, request, sending
<1>1. CASE MayAdd(out[cursor])
  <2> DEFINE d == out[cursor] - 48
  <2>1. out[cursor] \in 48..57 /\ Fits(d)
    BY <1>1 DEF MayAdd
  <2>2. d \in 0..9 /\ index' = index * 10 + d /\ cursor' = cursor + 1 /\ UNCHANGED pc
    BY <1>1, <2>1 DEF Digit
  <2>3. index' \in 0..(IndexMax - 1)
    BY <2>1, <2>2, FitsBounds
  <2> QED BY <2>2, <2>3, SizesAssumption DEF Digit, Pc, Ends, OutMax
<1>2. CASE ~MayAdd(out[cursor])
  BY <1>2 DEF Digit, Pc, Ends, OutMax
<1> QED BY <1>1, <1>2

LEMMA SendInv == IInv /\ (OpenText \/ Text \/ EndText \/ CloseText) => IInv'
<1> SUFFICES ASSUME IInv, OpenText \/ Text \/ EndText \/ CloseText PROVE IInv'
  OBVIOUS
<1> USE DEF IInv, TypeOK, InBounds, Blank, request, reading, sending
<1>1. Len(body) \in Nat /\ 34 \in Byte /\ 123 \in Byte /\ 125 \in Byte
  BY LenProperties DEF Byte
<1>2. << 123, 34 >> \in Seq(Byte) /\ << 34, 125 >> \in Seq(Byte) /\ << >> \in Seq(Byte)
  BY <1>1
<1>3. pc = "text" => Rest \in Seq(Byte)
  <2>1. pc = "text" => \A i \in stop..(cursor - 1) : i \in 1..Len(body) /\ body[i] \in Byte
    BY <1>1, ElementOfSeq
  <2> QED BY <2>1, SubSeqProperties DEF Rest
<1>4. ASSUME pc = "text", NEW more \in Seq(Byte), SendRest(more)
      PROVE  sent' \in Seq(Byte) /\ ended' \in BOOLEAN
  BY <1>3, <1>4, ConcatProperties DEF SendRest
<1>5. CASE OpenText
  BY <1>1, <1>2, <1>5 DEF OpenText, Pc, Ends, OutMax
<1>6. CASE Text
  <2>1. cursor' = cursor + 1 /\ cursor <= Len(body) /\ stop' \in {stop, cursor + 1}
    BY <1>6, CharIsByte DEF Text
  <2>2. sent' \in Seq(Byte) /\ ended' \in BOOLEAN
    <3>1. CASE Special(Char(cursor))
      <4>1. Escape(Char(cursor)) \in Seq(Byte)
        BY <3>1, CharIsByte, EscapeIsBytes
      <4> QED BY <1>4, <1>6, <3>1, <4>1 DEF Text
    <3> QED BY <1>6, <3>1 DEF Text
  <2> QED BY <1>1, <1>6, <2>1, <2>2 DEF Text, Pc, Ends, OutMax
<1>7. CASE EndText
  BY <1>2, <1>4, <1>7 DEF EndText, Pc, Ends, OutMax
<1>8. CASE CloseText
  BY <1>2, <1>8, ConcatProperties DEF CloseText, Pc, Ends, OutMax
<1> QED BY <1>5, <1>6, <1>7, <1>8

LEMMA StutterInv == IInv /\ UNCHANGED vars => IInv'
BY DEF vars, request, reading, sending, IInv, TypeOK, InBounds, Blank, OutMax

LEMMA Inductive == Spec => []IInv
<1>1. IInv /\ [Next]_vars => IInv'
  BY CallInv, ReturnInv, MoveInv, FieldInv, FailsInv, DecodeInv, TakeInv, DigitInv, SendInv,
     StutterInv DEF Next, Parse
<1> QED BY <1>1, InitInv, PTL DEF Spec

(* Every variable of HttpForms keeps its type: a decoded value never holds *)
(* a zero byte, whatever the body.                                         *)
THEOREM TypeCorrect == Spec => []TypeOK
BY Inductive, PTL DEF IInv

(* For every body, however it is cut, and every size of buffer, no loop of *)
(* the form parser leaves its buffers and no parsed index reaches IndexMax. *)
THEOREM StaysInBounds == Spec => []InBounds
BY Inductive, PTL DEF IInv

=============================================================================
