------------------------------ MODULE JsonRpc ------------------------------
(***************************************************************************)
(* How JSON-RPC messages are read (rpc.go): ids as keys, answers as        *)
(* outcomes.  A message that does not parse is not in here: its readers    *)
(* treat it as none.                                                       *)
(***************************************************************************)
CONSTANT Texts   \* what a number or a string id may read

\* An id as it stands in the message: the literal null reads "null".
RawId == [form : {"absent", "null", "number", "string"}, text : Texts \cup {"", "null"}]

NoId == [form |-> "absent", text |-> ""]
NullId == [form |-> "null", text |-> "null"]
Number(t) == [form |-> "number", text |-> t]
String(t) == [form |-> "string", text |-> t]

\* The key of an id: its text, whatever its form.
IDString(raw) == IF raw.form = "absent" THEN "" ELSE raw.text

\* The empty key stands for a message without an id.
Keyed(raw) == IDString(raw) # ""

\* What a message that answers says: a plain result, a JSON-RPC error, a result
\* with isError, or one with isError whose content has not the shape expected.
Answers == {"result", "error", "toolError", "shapeless"}

\* A message with an id may also be a request of its sender's own, which is no
\* answer; ParseResponse does not look for a method, and reads it like one.
Says == Answers \cup {"request"}

\* Bug: only protocol errors count.
IsErrorRpcOnly(says) == says = "error"

\* A result that does not unmarshal is no error, whatever its isError, and so
\* is a message without any.
IsError(says) == says \in {"error", "toolError"}

\* What README.md:277 calls such an answer; of any other nothing is
\* said.
Declared(says) == CASE says = "result"                 -> {"ok"}
                    [] says \in {"error", "toolError"} -> {"error"}
                    [] OTHER                           -> {"ok", "error"}
=============================================================================
