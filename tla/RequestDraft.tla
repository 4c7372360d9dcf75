---------------------------- MODULE RequestDraft ----------------------------
(***************************************************************************)
(* The draft of a request in the Try-it-out modal: its parameters and its  *)
(* body, which three tabs edit, each with a state of its own.  Changing    *)
(* the tab takes fields over as text and text as fields, a file of a       *)
(* multipart part is read while the draft is edited on, and the tab of the *)
(* moment says what is sent.                                               *)
(*                                                                         *)
(* Sources: frontend features/try-it-out/ui/try-it-out-modal.tsx,          *)
(* entities/openapi, entities/api-console, shared/api.                     *)
(***************************************************************************)
EXTENDS Naturals, Sequences

CONSTANTS DraftOperations,  \* operations, each the body its specification declares
          MaxRows,          \* bound: fields of a table
          MaxTyped          \* bound: edits of one draft

\* JSON text: "object" has fields, "bare" ({}, a list, a scalar) has none, "broken" does not parse.
Texts == {"empty", "bare", "object", "broken"}

ASSUME DraftAssumption ==
    /\ DraftOperations \subseteq [content : {"none", "json", "multipart"}, example : Texts,
                                  required : BOOLEAN, params : BOOLEAN]
    /\ \A o \in DraftOperations : o.content = "none" => o.example = "empty" /\ ~o.required
    /\ MaxRows \in Nat \ {0} /\ MaxTyped \in Nat   \* an object is taken over as a row

Tabs3 == {"json", "key-value", "multipart"}
Row == [keyed : BOOLEAN, enabled : BOOLEAN]
NewRow == [keyed |-> FALSE, enabled |-> TRUE]
NoRead == [index |-> 0, rows |-> <<>>]

VARIABLES operation,  \* the operation the modal shows
          given,      \* required path and query parameters have a value
          bodyType, bodyText, keyValueFields, multipartFields,
          reading,    \* a file being read: its row, and the rows of the render that chose it
          sentBody,   \* the body of the last request, "none" before
          draftEdits  \* edits so far

draftVars == <<operation, given, bodyType, bodyText, keyValueFields, multipartFields, reading, sentBody, draftEdits>>

Tables == UNION {[1..n -> Row] : n \in 0..MaxRows}
Usable(rows) == \E i \in DOMAIN rows : rows[i].enabled /\ rows[i].keyed
------------------------------------------------------------------------------
\* jsonToFields: an object's entries, none of any other text.
JsonToFields(text) == IF text = "object" THEN <<[keyed |-> TRUE, enabled |-> TRUE]>> ELSE <<>>

\* fieldsToJson skips rows that are off or have no key.
FieldsToJson(rows) == IF Usable(rows) THEN "object" ELSE "bare"

\* The example of the specification, whatever it is, or one made from the schema; no body has no text.
DraftText(o) == o.example

InitialBodyType(o) ==
    IF o.content = "multipart" THEN "multipart"
    ELSE IF JsonToFields(DraftText(o)) # <<>> THEN "key-value" ELSE "json"

\* The modal's content mounts: parameters start from their examples, if they have any.
Mount(o) ==
    /\ operation' = o /\ given' = o.params
    /\ bodyType' = InitialBodyType(o) /\ bodyText' = DraftText(o)
    /\ keyValueFields' = JsonToFields(DraftText(o)) /\ multipartFields' = <<>>
    /\ reading' = NoRead /\ sentBody' = "none" /\ draftEdits' = 0

SelectOperation == \E o \in DraftOperations \ {operation} : Mount(o)
------------------------------------------------------------------------------
Type == draftEdits < MaxTyped /\ draftEdits' = draftEdits + 1

\* The tables of parameters: a required value is typed or cleared.
EditParameters ==
    /\ Type /\ given' = ~given
    /\ UNCHANGED <<operation, bodyType, bodyText, keyValueFields, multipartFields, reading, sentBody>>

EditText ==
    /\ Type /\ bodyType = "json" /\ \E text \in Texts \ {bodyText} : bodyText' = text
    /\ UNCHANGED <<operation, given, bodyType, keyValueFields, multipartFields, reading, sentBody>>

\* A row is added at the end, deleted, or changed in place.
Edited(rows) ==
    {Append(rows, NewRow)}
    \union {[j \in 1..(Len(rows) - 1) |-> rows[IF j < i THEN j ELSE j + 1]] : i \in DOMAIN rows}
    \union {[rows EXCEPT ![i] = row] : i \in DOMAIN rows, row \in Row}

EditKeyValueFields ==
    /\ Type /\ bodyType = "key-value"
    /\ \E rows \in Edited(keyValueFields) \intersect Tables : keyValueFields' = rows
    /\ UNCHANGED <<operation, given, bodyType, bodyText, multipartFields, reading, sentBody>>

EditMultipartFields ==
    /\ Type /\ bodyType = "multipart"
    /\ \E rows \in Edited(multipartFields) \intersect Tables : multipartFields' = rows
    /\ UNCHANGED <<operation, given, bodyType, bodyText, keyValueFields, reading, sentBody>>

\* Fields are taken over when the text has some, text when there are fields.
HandleBodyTypeChange(type) ==
    /\ Type /\ bodyType' = type
    /\ keyValueFields' = IF type = "key-value" /\ JsonToFields(bodyText) # <<>>
                         THEN JsonToFields(bodyText) ELSE keyValueFields
    /\ bodyText' = IF type = "json" /\ keyValueFields # <<>> THEN FieldsToJson(keyValueFields) ELSE bodyText
    /\ UNCHANGED <<operation, given, multipartFields, reading, sentBody>>

HandleFileChange(i) ==
    /\ Type /\ bodyType = "multipart" /\ i \in DOMAIN multipartFields /\ reading = NoRead
    /\ reading' = [index |-> i, rows |-> multipartFields]
    /\ UNCHANGED <<operation, given, bodyType, bodyText, keyValueFields, multipartFields, sentBody>>

\* The rows as they were when the file was chosen: what was edited since is undone.
FileLoaded ==
    /\ reading # NoRead /\ multipartFields' = reading.rows /\ reading' = NoRead
    /\ UNCHANGED <<operation, given, bodyType, bodyText, keyValueFields, sentBody, draftEdits>>
------------------------------------------------------------------------------
\* Mutant: whichever tab is open, the text is what a required body is checked by.
ValidateText == given /\ bodyText # "broken" /\ (operation.required => bodyText # "empty")

\* The checks are those of the tab of the moment.
Validate ==
    /\ given
    /\ bodyType = "json" => bodyText # "broken" /\ (operation.required => bodyText # "empty")
    /\ bodyType = "key-value" /\ operation.required => Usable(keyValueFields)
    /\ bodyType = "multipart" /\ operation.required => Usable(multipartFields)

\* buildMultipartBody and fieldsToJson send what is left without rows, the JSON tab nothing.
BodyToSend ==
    CASE bodyType = "multipart" -> IF Usable(multipartFields) THEN "parts" ELSE "no parts"
      [] bodyType = "key-value" -> IF Usable(keyValueFields) THEN "object" ELSE "no fields"
      [] OTHER -> bodyText

SendDraft ==
    /\ Validate /\ sentBody' = BodyToSend
    /\ UNCHANGED <<operation, given, bodyType, bodyText, keyValueFields, multipartFields, reading, draftEdits>>
------------------------------------------------------------------------------
DraftInit ==
    /\ operation \in DraftOperations /\ given = operation.params
    /\ bodyType = InitialBodyType(operation) /\ bodyText = DraftText(operation)
    /\ keyValueFields = JsonToFields(DraftText(operation)) /\ multipartFields = <<>>
    /\ reading = NoRead /\ sentBody = "none" /\ draftEdits = 0

DraftNext ==
    \/ SelectOperation
    \/ EditParameters \/ EditText \/ EditKeyValueFields \/ EditMultipartFields
    \/ \E type \in Tabs3 \ {bodyType} : HandleBodyTypeChange(type)
    \/ \E i \in 1..MaxRows : HandleFileChange(i)
    \/ FileLoaded
    \/ SendDraft

DraftSpec == DraftInit /\ [][DraftNext]_draftVars
------------------------------------------------------------------------------
DraftTypeOK ==
    /\ operation \in DraftOperations /\ given \in BOOLEAN /\ draftEdits \in 0..MaxTyped
    /\ bodyType \in Tabs3 /\ bodyText \in Texts
    /\ {keyValueFields, multipartFields, reading.rows} \subseteq Tables

(* An operation whose body is required is not called without one, in whichever tab it was
   written, whatever was typed into the other tabs and whichever file was read late. *)
RequiredBodiesAreSent ==
    sentBody # "none" /\ operation.required => sentBody \in {"bare", "object", "parts"}
=============================================================================
