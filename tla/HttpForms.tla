----------------------------- MODULE HttpForms ------------------------------
(***************************************************************************)
(* What provisioning_http.c and form_profile_policy.c make of the body of  *)
(* a request and of a text in a response.  The one HTTP server task takes  *)
(* a form piece by piece, looks up a field, decodes it and parses an       *)
(* index, or sends a text as a JSON string in chunks.  One action is one   *)
(* turn of one of the loops, so that what the loops keep can be proved.    *)
(* Bytes are numbers, positions count from 1.                              *)
(***************************************************************************)
EXTENDS Integers, Sequences, FiniteSets

CONSTANTS
  Bodies,       \* what clients send as a form
  Texts,        \* what is sent to them: messages, and names of networks
  FirstKey,     \* the key of a single value, of an index and of the SSID
  SecondKey,    \* the key of the password
  BodyMax,      \* FORM_BODY_MAX
  ValueMax,     \* out_len of a value
  TextMax,      \* FORM_PROFILE_INDEX_TEXT_MAX
  IndexMax      \* WIFI_PROFILE_MAX, upper_bound_exclusive

Byte == 0..255

ASSUME BodiesAssumption == Bodies \subseteq Seq(Byte) /\ Texts \subseteq Seq(Byte)
(* The names of fields are letters. *)
Key == {k \in Seq(Byte) : \A i \in 1..Len(k) : k[i] \notin {0, 38, 61}}

ASSUME KeysAssumption == FirstKey \in Key /\ SecondKey \in Key \ {FirstKey}
ASSUME SizesAssumption == /\ BodyMax \in Nat \ {0} /\ ValueMax \in Nat \ {0}
                          /\ TextMax \in Nat \ {0} /\ IndexMax \in Nat \ {0}

VARIABLES
  pc,         \* where the server is in its request
  kind,       \* read_form_value, read_profile_index, read_wifi_credentials
              \*   or send_json_string
  body,       \* the form that the client sends, or the text to be sent
  received,   \* how much of the form has come
  key,        \* what form_value_get looks for
  cursor,     \* the byte that the loop is at
  stop,       \* field_end while a value is decoded, start while one is sent
  out,        \* the value as far as it is decoded
  first,      \* the SSID while the password is looked up
  index,      \* parsed
  sent,       \* the bytes of the response
  ended       \* an empty chunk was sent, which ends the response

request == << kind, body >>
reading == << received, key, cursor, stop, out, first, index >>
sending == << sent, ended >>
vars == << pc, request, reading, sending >>

Kinds == {"value", "index", "wifi", "send"}

(* The ways in which a request ends. *)
Ends == {"accepted", "rejected", "complete", "broken"}

Pc == {"idle", "receive", "field", "decode", "digits", "open", "text", "close"} \cup Ends

Init ==
  /\ pc = "idle" /\ kind = "value" /\ body = << >>
  /\ received = 0 /\ key = FirstKey /\ cursor = 1 /\ stop = 1
  /\ out = << >> /\ first = << >> /\ index = 0
  /\ sent = << >> /\ ended = FALSE

----------------------------------------------------------------------------
Call ==
  /\ pc = "idle"
  /\ \/ /\ kind' \in Kinds \ {"send"} /\ body' \in Bodies /\ pc' = "receive"
     \/ /\ kind' = "send" /\ body' \in Texts /\ pc' = "open"
  /\ UNCHANGED << reading, sending >>

(* Nothing is left of a request: every buffer is on the stack. *)
Return ==
  /\ pc \in Ends
  /\ pc' = "idle" /\ kind' = "value" /\ body' = << >>
  /\ received' = 0 /\ key' = FirstKey /\ cursor' = 1 /\ stop' = 1
  /\ out' = << >> /\ first' = << >> /\ index' = 0
  /\ sent' = << >> /\ ended' = FALSE

(* read_form_body: a body that is empty or leaves no room for the final 0. *)
Refuse ==
  /\ pc = "receive" /\ (Len(body) = 0 \/ Len(body) >= BodyMax)
  /\ pc' = "rejected"
  /\ UNCHANGED << request, reading, sending >>

MayReceive == /\ pc = "receive" /\ Len(body) # 0 /\ Len(body) < BodyMax
              /\ received < Len(body)

(* httpd_req_recv; a timeout changes nothing, the loop goes on. *)
Receive ==
  /\ MayReceive
  /\ received' \in (received + 1)..Len(body)
  /\ IF received' = Len(body) THEN pc' = "field" ELSE UNCHANGED pc
  /\ UNCHANGED << request, key, cursor, stop, out, first, index, sending >>

(* The client closes the connection, or the socket fails. *)
Close ==
  /\ MayReceive
  /\ pc' = "rejected"
  /\ UNCHANGED << request, reading, sending >>

----------------------------------------------------------------------------
(* The byte of the C string: everything ends at a 0. *)
Char(i) == IF i \in 1..Len(body) THEN body[i] ELSE 0

(* The first byte from position i on that is an "&" (38) or the end. *)
IsFieldEnd(i, e) == /\ Char(e) \in {0, 38}
                    /\ \A j \in i..(e - 1) : Char(j) \notin {0, 38}

(* Mutated: the key may be the end of a longer one. *)
KeyMatches_Suffix(i, eq) ==
  /\ eq - i >= Len(key)
  /\ \A j \in 1..Len(key) : Char(eq - Len(key) + j - 1) = key[j]

KeyMatches(i, eq) == /\ eq - i = Len(key)
                     /\ \A j \in 1..Len(key) : Char(i + j - 1) = key[j]

(* The first "=" (61) of the field comes right after the key. *)
IsMatch(i, e, eq) == /\ Char(eq) = 61 /\ \A j \in i..(eq - 1) : Char(j) # 61
                     /\ KeyMatches(i, eq)

(* Mutated: the separator is not stepped over. *)
NextField_Stuck(e) == e

NextField(e) == IF Char(e) = 38 THEN e + 1 ELSE e

(* One turn of form_value_get: this field has the key, or the next one is  *)
(* looked at.                                                              *)
Field ==
  /\ pc = "field" /\ Char(cursor) # 0
  /\ \E e \in cursor..(Len(body) + 1) :
       /\ IsFieldEnd(cursor, e)
       /\ \/ \E eq \in cursor..(e - 1) :
               /\ IsMatch(cursor, e, eq)
               /\ cursor' = eq + 1 /\ stop' = e /\ pc' = "decode"
          \/ /\ ~ \E eq \in cursor..(e - 1) : IsMatch(cursor, e, eq)
             /\ cursor' = NextField(e) /\ UNCHANGED << stop, pc >>
  /\ UNCHANGED << request, received, key, out, first, index, sending >>

(* form_value_get fails, out[0] is 0.  A password that fails is taken to   *)
(* be empty.                                                               *)
Fails == /\ pc' = IF kind = "wifi" /\ key = SecondKey THEN "accepted" ELSE "rejected"
         /\ out' = << >>
         /\ UNCHANGED << request, received, key, cursor, stop, first, index, sending >>

NotFound == pc = "field" /\ Char(cursor) = 0 /\ Fails

----------------------------------------------------------------------------
OutMax == IF kind = "index" THEN TextMax ELSE ValueMax

HexDigit(c) == CASE c \in 48..57  -> c - 48
                 [] c \in 97..102 -> c - 87
                 [] c \in 65..70  -> c - 55
                 [] OTHER         -> -1

IsEscape(i) == /\ i + 2 < stop
               /\ HexDigit(Char(i + 1)) >= 0 /\ HexDigit(Char(i + 2)) >= 0

(* "+" (43) is a space, "%" (37) and two hex digits a byte. *)
Decoded(i) == IF Char(i) = 43 THEN 32
              ELSE IF Char(i) = 37 THEN 16 * HexDigit(Char(i + 1)) + HexDigit(Char(i + 2))
              ELSE Char(i)

(* Mutated: no room is kept for the final 0. *)
HasRoom_Not == Len(out) < OutMax

HasRoom == Len(out) + 1 < OutMax

(* Mutated: a zero is decoded like any other byte. *)
Decodable_Zero(i) == Char(i) = 37 => IsEscape(i)

Decodable(i) == (Char(i) = 37 => IsEscape(i)) /\ Decoded(i) # 0

(* One turn of decode_form_component. *)
Decode ==
  /\ pc = "decode" /\ cursor < stop /\ Decodable(cursor) /\ HasRoom
  /\ out' = Append(out, Decoded(cursor))
  /\ cursor' = cursor + (IF Char(cursor) = 37 THEN 3 ELSE 1)
  /\ UNCHANGED << pc, request, received, key, stop, first, index, sending >>

DecodeFails == pc = "decode" /\ cursor < stop /\ ~(Decodable(cursor) /\ HasRoom) /\ Fails

(* What the caller makes of a value that was decoded. *)
Decoding == pc = "decode" /\ cursor >= stop

TakeValue ==
  /\ Decoding
  /\ kind = "value" \/ (kind = "wifi" /\ key = SecondKey)
  /\ pc' = "accepted"
  /\ UNCHANGED << request, reading, sending >>

TakeSsid ==
  /\ Decoding /\ kind = "wifi" /\ key = FirstKey
  /\ IF out = << >> THEN pc' = "rejected" /\ UNCHANGED << key, cursor, out, first >>
     ELSE /\ pc' = "field"
          /\ key' = SecondKey /\ cursor' = 1 /\ first' = out /\ out' = << >>
  /\ UNCHANGED << request, received, stop, index, sending >>

TakeIndex ==
  /\ Decoding /\ kind = "index"
  /\ IF out = << >> THEN pc' = "rejected" /\ UNCHANGED cursor
     ELSE pc' = "digits" /\ cursor' = 1
  /\ UNCHANGED << request, received, key, stop, out, first, index, sending >>

----------------------------------------------------------------------------
(* Mutated: one more than the greatest index is let through. *)
Fits_OffByOne(digit) ==
  \/ index < IndexMax \div 10
  \/ index = IndexMax \div 10 /\ digit <= IndexMax % 10

(* max_allowed is IndexMax - 1: the number stays below IndexMax with this  *)
(* digit, asked without computing it.                                      *)
Fits(digit) == \/ index < (IndexMax - 1) \div 10
               \/ index = (IndexMax - 1) \div 10 /\ digit <= (IndexMax - 1) % 10

MayAdd(c) == c \in 48..57 /\ Fits(c - 48)

(* One turn of form_profile_index_get. *)
Digit ==
  /\ pc = "digits" /\ cursor <= Len(out)
  /\ IF MayAdd(out[cursor])
     THEN /\ index' = index * 10 + (out[cursor] - 48)
          /\ cursor' = cursor + 1
          /\ UNCHANGED pc
     ELSE pc' = "rejected" /\ UNCHANGED << index, cursor >>
  /\ UNCHANGED << request, received, key, stop, out, first, sending >>

TakeDigits ==
  /\ pc = "digits" /\ cursor > Len(out)
  /\ pc' = "accepted"
  /\ UNCHANGED << request, reading, sending >>

----------------------------------------------------------------------------
HexChar(n) == IF n < 10 THEN 48 + n ELSE 87 + n

Special(c) == c < 32 \/ c \in {34, 92}

(* A letter after a backslash (92), or u00 and two hex digits. *)
Escape(c) == CASE c \in {34, 92} -> << 92, c >>
               [] c = 8  -> << 92, 98 >>
               [] c = 12 -> << 92, 102 >>
               [] c = 10 -> << 92, 110 >>
               [] c = 13 -> << 92, 114 >>
               [] c = 9  -> << 92, 116 >>
               [] OTHER  -> << 92, 117, 48, 48, HexChar(c \div 16), HexChar(c % 16) >>

(* provisioning_http_send_profiles_error and _send_action_json up to the   *)
(* text: a brace, and the quote of provisioning_http_send_json_string.     *)
OpenText ==
  /\ pc = "open"
  /\ sent' = << 123, 34 >> /\ pc' = "text"
  /\ UNCHANGED << request, reading, ended >>

(* The bytes that were skipped and are still to be sent. *)
Rest == SubSeq(body, stop, cursor - 1)

(* Mutated: they are sent though there are none. *)
HasRest_Always == TRUE

HasRest == cursor > stop

(* httpd_resp_send_chunk: an empty chunk ends the response. *)
SendRest(more) == /\ sent' = sent \o Rest \o more
                  /\ ended' = (ended \/ (HasRest /\ Rest = << >>))

(* One turn of the loop over the text: at a special byte what was skipped  *)
(* is sent, and its escape.                                                *)
Text ==
  /\ pc = "text" /\ Char(cursor) # 0
  /\ cursor' = cursor + 1
  /\ IF Special(Char(cursor))
     THEN SendRest(Escape(Char(cursor))) /\ stop' = cursor + 1
     ELSE UNCHANGED << stop, sending >>
  /\ UNCHANGED << pc, request, received, key, out, first, index >>

EndText ==
  /\ pc = "text" /\ Char(cursor) = 0
  /\ SendRest(<< >>)
  /\ pc' = "close"
  /\ UNCHANGED << request, reading >>

(* The quote, the brace and the empty chunk. *)
CloseText ==
  /\ pc = "close"
  /\ sent' = sent \o << 34, 125 >> /\ ended' = TRUE /\ pc' = "complete"
  /\ UNCHANGED << request, reading >>

(* A chunk cannot be sent: the rest is not even tried. *)
SendFails ==
  /\ pc \in {"open", "text", "close"}
  /\ pc' = "broken"
  /\ UNCHANGED << request, reading, sending >>

----------------------------------------------------------------------------
Parse == \/ Refuse \/ Field \/ NotFound \/ Decode \/ DecodeFails \/ TakeValue \/ TakeSsid
         \/ TakeIndex \/ Digit \/ TakeDigits \/ OpenText \/ Text \/ EndText \/ CloseText

Next == Call \/ Return \/ Receive \/ Close \/ Parse \/ SendFails

Spec == Init /\ [][Next]_vars

(* The server goes on.  Nothing is assumed of the client: the loop over    *)
(* httpd_req_recv waits for it without a limit.                            *)
FairSpec == Spec /\ WF_vars(Parse)

----------------------------------------------------------------------------
TypeOK ==
  /\ pc \in Pc /\ kind \in Kinds
  /\ body \in Seq(Byte) /\ key \in {FirstKey, SecondKey}
  /\ received \in Nat /\ cursor \in Nat /\ stop \in Nat /\ index \in Nat
  /\ out \in Seq(1..255) /\ first \in Seq(1..255) /\ sent \in Seq(Byte)
  /\ ended \in BOOLEAN

(* Every loop stays inside its buffers: the form fits with its final 0 and *)
(* is looked at only when all of it is there, a decoded value keeps room   *)
(* for its final 0, no escape reaches behind the value, a parsed index     *)
(* never exceeds what is allowed, on the way to it neither.                *)
InBounds ==
  /\ received <= Len(body)
  /\ pc \in {"field", "decode", "digits"} => Len(body) < BodyMax /\ received = Len(body)
  /\ pc \in {"field", "text"} => cursor <= Len(body) + 1
  /\ pc = "decode" => cursor <= stop /\ stop <= Len(body) + 1
  /\ Len(out) < OutMax
  /\ index < IndexMax

(* The text of the form up to the first 0. *)
FormEnd == CHOOSE n \in 0..Len(body) : Char(n + 1) = 0 /\ \A i \in 1..n : Char(i) # 0

Form == SubSeq(body, 1, FormEnd)

(* What is between two separators. *)
Fields == {f \in (1..(Len(Form) + 1)) \X (0..Len(Form)) :
             /\ f[1] = 1 \/ Form[f[1] - 1] = 38
             /\ f[2] = Len(Form) \/ Form[f[2] + 1] = 38
             /\ \A i \in f[1]..f[2] : Form[i] # 38}

Named(k) == {f \in Fields : /\ f[1] + Len(k) <= f[2]
                            /\ SubSeq(Form, f[1], f[1] + Len(k)) = Append(k, 61)}

(* What stands in the first field of that name. *)
Raw(k) == LET f == CHOOSE f \in Named(k) : \A g \in Named(k) : f[1] <= g[1]
          IN  SubSeq(Form, f[1] + Len(k) + 1, f[2])

(* Every "%" begins an escape, and none stands for 0. *)
Good(v, i) == /\ i + 2 <= Len(v) /\ HexDigit(v[i + 1]) >= 0 /\ HexDigit(v[i + 2]) >= 0
              /\ HexDigit(v[i + 1]) + HexDigit(v[i + 2]) > 0

Strict(v) == \A i \in 1..Len(v) : v[i] = 37 => Good(v, i)

(* Where the bytes of the value begin, the n-th of these places, and what  *)
(* begins there.                                                           *)
Begin(v) == {i \in 1..Len(v) : \A j \in {i - 1, i - 2} \cap (1..Len(v)) : v[j] # 37}

BeginTo(v, d) == {i \in Begin(v) : i <= d}

Nth(v, n) == CHOOSE i \in Begin(v) : Cardinality(BeginTo(v, i)) = n

Meaning(v, i) == CASE v[i] = 43 -> 32
                   [] v[i] = 37 -> 16 * HexDigit(v[i + 1]) + HexDigit(v[i + 2])
                   [] OTHER     -> v[i]

Plain(v) == [n \in 1..Cardinality(Begin(v)) |-> Meaning(v, Nth(v, n))]

IsSent(k) == /\ Named(k) # {} /\ Strict(Raw(k))
             /\ Len(Plain(Raw(k))) < OutMax

Parsed == received = Len(body) /\ Len(body) \in 1..(BodyMax - 1)

(* A value is taken exactly if the first field of its name is well-formed, *)
(* free of zeros and short enough, and then it is what that field says; a  *)
(* network has a name.  A password that is well-formed and short enough is *)
(* taken as it was sent, and one that was not sent is empty; of any other  *)
(* nothing is said here (MalformedRefused is what is asked of it).         *)
ValueAsSent ==
  /\ kind = "value" =>
       /\ pc = "accepted" => IsSent(FirstKey) /\ out = Plain(Raw(FirstKey))
       /\ pc = "rejected" /\ Parsed => ~IsSent(FirstKey)
  /\ kind = "wifi" =>
       /\ pc = "accepted" =>
            /\ IsSent(FirstKey) /\ first = Plain(Raw(FirstKey)) /\ first # << >>
            /\ IsSent(SecondKey) => out = Plain(Raw(SecondKey))
            /\ Named(SecondKey) = {} => out = << >>
       /\ pc = "rejected" /\ Parsed => ~IsSent(FirstKey) \/ Raw(FirstKey) = << >>

(* What docs/P2_SCOPE.md:10 asks for: no request is accepted with a field  *)
(* in use that is malformed or holds an encoded zero.  The password of     *)
(* provisioning_http_read_wifi_credentials is taken for empty instead, and *)
(* the request goes on.                                                    *)
MalformedRefused ==
  pc = "accepted" =>
    \A k \in {FirstKey} \cup (IF kind = "wifi" THEN {SecondKey} ELSE {}) :
      Named(k) # {} => Strict(Raw(k))

(* form_profile_index_format: the digits of a number. *)
Format[n \in Nat] == IF n < 10 THEN << 48 + n >>
                     ELSE Append(Format[n \div 10], 48 + (n % 10))

(* The id under which send_profiles lists a profile, with leading zeros or *)
(* without, selects that profile, and nothing else selects one.            *)
Denotes(v, n) == /\ Len(Format[n]) <= Len(v)
                 /\ \A i \in 1..Len(v) :
                      LET j == i - (Len(v) - Len(Format[n]))
                      IN  v[i] = IF j < 1 THEN 48 ELSE Format[n][j]

IndexAsSent ==
  kind = "index" =>
    LET ids == {n \in 0..(IndexMax - 1) : IsSent(FirstKey) /\ Denotes(Plain(Raw(FirstKey)), n)}
    IN  /\ pc = "accepted" => ids = {index}
        /\ pc = "rejected" /\ Parsed => ids = {}

(* How a JSON parser reads a string: what stands at its i-th byte, and how *)
(* many bytes that takes.  A bare quote, a control byte and a broken       *)
(* escape are no character, and neither is one that is not ASCII.          *)
NoChar == 256

Letter(c) == CASE c \in {34, 47, 92} -> c
               [] c = 98  -> 8
               [] c = 102 -> 12
               [] c = 110 -> 10
               [] c = 114 -> 13
               [] c = 116 -> 9
               [] OTHER   -> NoChar

(* After "u" come two zeros and two hex digits. *)
CodePoint(s, i) ==
  IF /\ i + 5 <= Len(s) /\ s[i + 2] = 48 /\ s[i + 3] = 48
     /\ HexDigit(s[i + 4]) \in 0..7 /\ HexDigit(s[i + 5]) >= 0
  THEN 16 * HexDigit(s[i + 4]) + HexDigit(s[i + 5]) ELSE NoChar

IsCodePoint(s, i) == s[i] = 92 /\ i < Len(s) /\ s[i + 1] = 117

CharAt(s, i) == CASE IsCodePoint(s, i)                         -> CodePoint(s, i)
                  [] s[i] = 92 /\ i < Len(s) /\ s[i + 1] # 117 -> Letter(s[i + 1])
                  [] s[i] # 92 /\ ~Special(s[i])              -> s[i]
                  [] OTHER                                     -> NoChar

WidthAt(s, i) == IF IsCodePoint(s, i) THEN 6 ELSE IF s[i] = 92 THEN 2 ELSE 1

Unescape(s) ==
  LET read[i \in 1..(Len(s) + 6)] ==
        IF i > Len(s) THEN << >> ELSE << CharAt(s, i) >> \o read[i + WidthAt(s, i)]
  IN  read[1]

(* A response that has its end is whole and its string reads as the text;  *)
(* one that broke off has no end, which tells the client.                  *)
TextArrives ==
  ended =>
    /\ pc = "complete"
    /\ LET string == SubSeq(sent, 3, Len(sent) - 2)
       IN  /\ sent = << 123, 34 >> \o string \o << 34, 125 >>
           /\ Unescape(string) = Form

(* However the body was cut, and whatever is in it, the server comes to    *)
(* the end of the request and is free again, unless it waits for more of   *)
(* the body: while the client neither sends it nor goes away,              *)
(* read_form_body waits as long, and nothing is promised.                  *)
ServerComesToEnd == pc # "idle" /\ ~MayReceive ~> pc \in Ends

=============================================================================
