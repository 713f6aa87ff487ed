--------------------------- MODULE RouterMessages ---------------------------
(***************************************************************************)
(* What the execution client and the database router say to each other:    *)
(* decoded requests and responses (app/db_eth.go, app/errors.go).          *)
(***************************************************************************)
EXTENDS ExecutionTables, RequestDecoding

CONSTANTS Cursors,            \* cursor ids
          NoCursor            \* the cursor of a request that names none

Request == [op : OpCodes, table : Nat, key : Bytes \cup {Unset},
            val : Values \cup {NoValue}, cur : Cursors \cup {NoCursor}, n : Nat]

NoRequest == [op |-> "Get", table |-> 0, key |-> Unset, val |-> NoValue,
              cur |-> NoCursor, n |-> 0]

Errors == {"ErrTableNotFound", "ErrInvalidRequestData", "ErrInvalidOperationCode",
           "ErrCurrentKeyIsNotSet", "ErrCurrentIteratorKeyIsInvalid",
           "ErrKeyAlreadyPresent", "ErrCannotAppend", "ErrCannotAppendDup"}

\* "none": not answered; "ok": the success byte alone, which is also how an
\* absent entry is reported; "entry": the success byte and an entry.
Reply == [st : {"entry"}, key : Bytes, val : StoredValues]
           \cup [st : {"none", "ok"} \cup Errors, key : {Unset}, val : {NoValue}]

NoReply == [st |-> "none", key |-> Unset, val |-> NoValue]
Success == [st |-> "ok", key |-> Unset, val |-> NoValue]
Failure(e) == [st |-> e, key |-> Unset, val |-> NoValue]
Entry(m, k) == [st |-> "entry", key |-> k, val |-> m[k]]
=============================================================================
