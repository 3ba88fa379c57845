------------------------------ MODULE Payloads ------------------------------
(***************************************************************************)
(* What a task is sent as.  The legacy format (TaskPayload) is a sequence  *)
(* of characters: every field is preceded by its size, written with Width  *)
(* digits of base Base (8 hexadecimal digits of a uint32_t in the code).   *)
(* The characters below Base are the digits.  The format of the convention *)
(* (ConventionPayload) is JSON text, kept as a record: what matters is     *)
(* that JSON holds text only, and that each format refuses the other one.  *)
(*                                                                         *)
(* A value of the convention is <<"id", n>>, the id of the blob n, or      *)
(* <<"data", d>>.  The members of NotText are data that is not UTF-8.      *)
(***************************************************************************)
EXTENDS Naturals, Sequences, SequencesExt

CONSTANTS Base, Width, NotText

ASSUME FormatAssumption == Base \in Nat \ {0, 1} /\ Width \in Nat \ {0}

(* Weight[k] is what a digit stands for that k digits follow.  The sizes   *)
(* are cast to the width of the field: a size above MaxSize loses its      *)
(* leading digits.                                                         *)
Weight[k \in 0..Width] == IF k = 0 THEN 1 ELSE Base * Weight[k - 1]
MaxSize == Weight[Width] - 1
IntToHex(n) == [k \in 1..Width |-> (n \div Weight[Width - k]) % Base]
HexToInt(digits) ==
  LET value[k \in 0..Len(digits)] == IF k = 0 THEN 0 ELSE value[k - 1] * Base + digits[k]
  IN  value[Len(digits)]
IsHex(s) == \A k \in DOMAIN s : s[k] < Base

(* TaskPayload::Serialize.                                                 *)
(* Mutant: the field of the arguments has the size of the method.          *)
SerializeOneSize(p) ==
  LET Field(s) == IntToHex(Len(s)) \o s
  IN  Field(p.method) \o IntToHex(Len(p.method)) \o p.arguments
        \o FlattenSeq([k \in DOMAIN p.dependencies |-> Field(p.dependencies[k])])
Serialize(p) ==
  LET Field(s) == IntToHex(Len(s)) \o s
  IN  Field(p.method) \o Field(p.arguments)
        \o FlattenSeq([k \in DOMAIN p.dependencies |-> Field(p.dependencies[k])])

(* The field that starts at position p: absl::string_view::substr throws   *)
(* beyond the end, hex_to_int when the size is no number.                  *)
NoField(p) == [ok |-> FALSE, next |-> p]
FieldAt(s, p) ==
  LET digits == SubSeq(s, p, p + Width - 1)
      first  == p + Width
      next   == first + HexToInt(digits)
  IN  IF first > Len(s) + 1 \/ ~IsHex(digits) \/ next > Len(s) + 1 THEN NoField(p)
      ELSE [ok |-> TRUE, value |-> SubSeq(s, first, next - 1), next |-> next]

(* TaskPayload::Deserialize.  The dependencies are parsed up to the end:   *)
(* after[n] is where n of them end, or the first that cannot be parsed     *)
(* begins.  Whatever is thrown on the way is a std::exception.             *)
Deserialize(s) ==
  LET method    == FieldAt(s, 1)
      arguments == FieldAt(s, method.next)
      after[n \in 0..Len(s)] ==
        IF n = 0 THEN arguments.next ELSE FieldAt(s, after[n - 1]).next
  IN  IF method.ok /\ arguments.ok /\ after[Len(s)] = Len(s) + 1
      THEN [ok |-> TRUE, method |-> method.value, arguments |-> arguments.value]
      ELSE [ok |-> FALSE]

(* ConventionPayload::Serialize (nlohmann::json::dump throws a type_error  *)
(* for a string that is not UTF-8) and what Deserialize makes of it.       *)
IsText(inputs) == \A name \in DOMAIN inputs : inputs[name] \notin {"data"} \X NotText
ToJson(method, inputs) == [format |-> "json", method |-> method, inputs |-> inputs]
ToBinary(p) == [format |-> "binary", characters |-> Serialize(p)]
=============================================================================
