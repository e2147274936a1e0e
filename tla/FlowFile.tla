------------------------------ MODULE FlowFile ------------------------------
(***************************************************************************)
(* A FlowFile and the record it is written to flash as.                    *)
(*                                                                         *)
(* A source makes a FlowFile, attribute by attribute; processors on its    *)
(* way set more in a copy; it is serialised into a file, of which a power  *)
(* loss or a full partition may leave any first part; replay reads what it *)
(* finds.  A record is a header, its attributes, each padded to the same   *)
(* size, the length of the content, and the content.                       *)
(*                                                                         *)
(* Names and values are strings; TooLong stands for those that do not fit.  *)
(***************************************************************************)
EXTENDS Integers, Sequences, SequencesExt

CONSTANTS
  MaxAttributes,  \* kMaxAttributes
  InlineBytes,    \* kInlineContentBytes
  HeaderBytes,    \* from the magic number to the number of attributes
  AttributeBytes, \* a padded key and value
  Names, Values,
  TooLong,        \* a name or a value without its end in the buffer
  Slots           \* what an UpdateAttribute may be configured with

LengthBytes == 2

ASSUME FlowFileAssumption ==
  /\ {MaxAttributes, InlineBytes, HeaderBytes, AttributeBytes} \subseteq Nat
  /\ Slots \subseteq Seq(Names \X Values)

VARIABLES
  attrs,   \* attrs_, the pairs of name and value
  size,    \* content_len_
  record,  \* what was serialised
  written, \* how much of it is in the file, in bytes
  readBack \* what flowfile_deserialize made of the file

fileVars == <<record, written, readBack>>
flowFileVars == <<attrs, size, fileVars>>

Empty    == [attrs |-> <<>>, size |-> 0]
NotRead  == [status |-> "none", attrs |-> <<>>, size |-> 0]

----------------------------------------------------------------------------
(* set_attribute: a name that is set again keeps its place; a new one is   *)
(* refused when there is no room, and so is an empty one.                  *)
SetAttribute(as, name, value) ==
  LET places == {i \in DOMAIN as : as[i][1] = name}
  IN  IF name = "" \/ TooLong \in {name, value} THEN as
      ELSE IF places # {}
           THEN [i \in DOMAIN as |-> IF i \in places THEN <<name, value>> ELSE as[i]]
      ELSE IF Len(as) >= MaxAttributes THEN as
      ELSE Append(as, <<name, value>>)

SetAll(as, pairs) ==
  FoldLeft(LAMBDA acc, p : SetAttribute(acc, p[1], p[2]), as, pairs)

FlowFileInit ==
  /\ attrs = <<>> /\ size = 0
  /\ record = Empty /\ written = 0 /\ readBack = NotRead

(* A source sets an attribute, or ...                                      *)
SourceSets(name, value) ==
  /\ attrs' = SetAttribute(attrs, name, value)
  /\ UNCHANGED <<size, fileVars>>

(* ... the content; what does not fit is refused.                          *)
SetContent(n) ==
  /\ size' = IF n <= InlineBytes THEN n ELSE size
  /\ UNCHANGED <<attrs, fileVars>>

(* UpdateAttribute sets its slots in a copy, and passes the copy on even   *)
(* if some were refused.                                                   *)
UpdateAttributes(slots) ==
  /\ attrs' = SetAll(attrs, slots)
  /\ UNCHANGED <<size, fileVars>>

Bytes(r) ==
  HeaderBytes + AttributeBytes * Len(r.attrs) + LengthBytes + r.size

(* flowfile_serialize, and the write, of which all or a first part is done.*)
Serialize ==
  /\ record' = [attrs |-> attrs, size |-> size]
  /\ written' \in 0 .. Bytes(record')
  /\ readBack' = NotRead
  /\ UNCHANGED <<attrs, size>>

(* Mutant: the length of the content is not counted.                       *)
RefusesUncounted(r, n) ==
  \/ n < HeaderBytes + LengthBytes
  \/ n - HeaderBytes < AttributeBytes * Len(r.attrs)
  \/ r.size > 0 /\ n - HeaderBytes - AttributeBytes * Len(r.attrs)
                     - LengthBytes < r.size

(* The checks of flowfile_deserialize on the first n bytes of a record.    *)
Refuses(r, n) ==
  \/ n < HeaderBytes + LengthBytes
  \/ n - HeaderBytes < AttributeBytes * Len(r.attrs) + LengthBytes
  \/ r.size > 0 /\ n - HeaderBytes - AttributeBytes * Len(r.attrs)
                     - LengthBytes < r.size

(* It sets the attributes it reads, in order, in a FlowFile it has cleared.*)
Deserialize ==
  /\ readBack' = IF Refuses(record, written)
                 THEN [NotRead EXCEPT !.status = "ParseError"]
                 ELSE [status |-> "Ok", attrs |-> SetAll(<<>>, record.attrs),
                       size |-> record.size]
  /\ UNCHANGED <<attrs, size, record, written>>

FlowFileNext ==
  \/ \E name \in Names, value \in Values : SourceSets(name, value)
  \/ \E n \in 0 .. InlineBytes + 1 : SetContent(n)
  \/ \E slots \in Slots : UpdateAttributes(slots)
  \/ Serialize \/ Deserialize

FlowFileSpec == FlowFileInit /\ [][FlowFileNext]_flowFileVars

----------------------------------------------------------------------------
FlowFileTypeOK ==
  /\ attrs \in Seq(Names \X Values) /\ Len(attrs) <= MaxAttributes
  /\ size \in 0 .. InlineBytes
  /\ written \in 0 .. Bytes(record)
  /\ readBack.status \in {"none", "Ok", "ParseError"}

(* What is read from a file is the FlowFile that was written, with every   *)
(* attribute in its place, or an error: no part of a record passes for a   *)
(* whole one, and no whole one is refused.                                 *)
ReadsBackWhole ==
  /\ readBack.status = "Ok" =>
       /\ written = Bytes(record)
       /\ [attrs |-> readBack.attrs, size |-> readBack.size] = record
  /\ readBack.status = "ParseError" => written < Bytes(record)
=============================================================================
