---------------------------- MODULE MCHttpForms -----------------------------
(***************************************************************************)
(* Forms of up to four pieces for HttpForms: fields and parts of fields,   *)
(* whole and broken escapes, separators and a zero byte.                   *)
(***************************************************************************)
EXTENDS HttpForms, SequencesExt

Upto(n, pieces) == UNION {{FlattenSeq(s) : s \in [1..m -> pieces]} : m \in 0..n}

(* k, k=, &, &p=, %, %26, %2B, %6b, +, 0, 1 and a zero byte. *)
Pieces == {<< 107 >>, << 107, 61 >>, << 38 >>, << 38, 112, 61 >>, << 37 >>, << 37, 50, 54 >>,
           << 37, 50, 66 >>, << 37, 54, 98 >>, << 43 >>, << 48 >>, << 49 >>, << 0 >>}

MCBodies == Upto(4, Pieces)

(* A letter, a quote, a backslash, a line feed, a byte without a letter of *)
(* its own, and one above 127.                                             *)
MCTexts == Upto(4, {<< 107 >>, << 34 >>, << 92 >>, << 10 >>, << 31 >>, << 195 >>})

MCFirstKey == << 107 >>

MCSecondKey == << 112 >>

=============================================================================
