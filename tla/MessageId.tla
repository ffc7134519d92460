----------------------------- MODULE MessageId -----------------------------
(***************************************************************************)
(* imap_client::parse_message_id, which every decision about duplicates    *)
(* rests on, against the header it is meant to read.                       *)
(*                                                                         *)
(* A line is a sequence of atoms: white space, the key `Message-ID:' in    *)
(* any case, angle brackets, and other text, in any number of kinds.        *)
(***************************************************************************)
EXTENDS Naturals, Sequences, FiniteSetsExt

CONSTANT Atoms

Space == "sp"
KEY == "message-id:"
Brackets == {"<", ">"}

ASSUME MessageAssumption == {Space, KEY} \cup Brackets \subseteq Atoms

-----------------------------------------------------------------------------
(* The parser. *)

\* What is left of a line between the first and the last atom not in S.
Trim(line, S) ==
  LET kept == {i \in DOMAIN line : line[i] \notin S}
  IN IF kept = {} THEN <<>> ELSE SubSeq(line, Min(kept), Max(kept))
TrimStart(line) ==
  LET kept == {i \in DOMAIN line : line[i] # Space}
  IN IF kept = {} THEN <<>> ELSE SubSeq(line, Min(kept), Len(line))

\* Empty lines are skipped; one that starts with white space continues the
\* line before it, if there is one.
EachLineAlone(unfolded, raw) == Append(unfolded, raw)
AddLine(unfolded, raw) ==
  IF raw = <<>> THEN unfolded
  ELSE IF raw[1] = Space /\ unfolded # <<>>
  THEN [unfolded EXCEPT ![Len(unfolded)] = @ \o <<Space>> \o TrimStart(raw)]
  ELSE Append(unfolded, raw)

Unfolded(lines) ==
  LET upTo[n \in 0..Len(lines)] ==
        IF n = 0 THEN <<>> ELSE AddLine(upTo[n - 1], lines[n])
  IN upTo[Len(lines)]

HasKey(line) == LET t == TrimStart(line) IN t # <<>> /\ t[1] = KEY
Value(line) ==
  Trim(Trim(Trim(Tail(TrimStart(line)), {Space}), Brackets), {Space})

LastOf(S) == Max(S)
FirstOf(S) == Min(S)

\* The empty sequence is `None'.
FirstId(unfolded) ==
  LET found == {i \in DOMAIN unfolded : HasKey(unfolded[i])
                                        /\ Value(unfolded[i]) # <<>>}
  IN IF found = {} THEN <<>> ELSE Value(unfolded[FirstOf(found)])

Parse(lines, utf8) == IF utf8 THEN FirstId(Unfolded(lines)) ELSE <<>>

-----------------------------------------------------------------------------
(* The messages it reads. *)

\* A message: header fields, body lines, and whether all of it is UTF-8.  A
\* field has a name and the identifier with what stands before and after it;
\* the sender cut it into lines at some of its white space.
VARIABLE message

Text(f) == <<f.name>> \o f.open \o f.id \o f.close
Rendered(f) ==
  [j \in DOMAIN f.ends |->
     SubSeq(Text(f), IF j = 1 THEN 1 ELSE f.ends[j - 1] + 1, f.ends[j])]

IsMessageId(f) == f.name = KEY

\* White space around brackets, as may stand on either side of an identifier.
Padding ==
  {p \in Seq({Space} \cup Brackets) :
     ~ \E i, j, k \in DOMAIN p :
         /\ i < j /\ j < k
         /\ p[i] \in Brackets /\ p[j] = Space /\ p[k] \in Brackets}
Identifiers ==
  {id \in Seq(Atoms \ {Space}) :
     id # <<>> => id[1] \notin Brackets /\ id[Len(id)] \notin Brackets}

\* What is no Message-Id is text of any kind.  A line after the first begins
\* with white space.
Fields ==
  {f \in [name : Atoms \ {Space}, open : Seq(Atoms), id : Seq(Atoms),
          close : Seq(Atoms), ends : Seq(Nat)] :
     /\ IsMessageId(f) =>
          f.open \in Padding /\ f.id \in Identifiers /\ f.close \in Padding
     /\ f.ends # <<>> /\ f.ends[Len(f.ends)] = Len(Text(f))
     /\ \A j \in 1 .. Len(f.ends) - 1 :
          f.ends[j] < f.ends[j + 1] /\ Text(f)[f.ends[j] + 1] = Space}

\* The header with those of its fields that are shown.
Lines(fields, shown) ==
  LET upTo[n \in 0..Len(fields)] ==
        IF n = 0 THEN <<>>
        ELSE IF n \in shown THEN upTo[n - 1] \o Rendered(fields[n])
        ELSE upTo[n - 1]
  IN upTo[Len(fields)]

MessageIdFields ==
  {i \in DOMAIN message.fields : IsMessageId(message.fields[i])}

\* BODY[HEADER.FIELDS (MESSAGE-ID)] and BODY[].
Header == Lines(message.fields, MessageIdFields) \o << <<>> >>
Whole ==
  Lines(message.fields, DOMAIN message.fields) \o << <<>> >> \o message.body

\* The fields that identify the message.
Identifying == {i \in MessageIdFields : message.fields[i].id # <<>>}

GivenMessage ==
  message \in [fields : Seq(Fields), body : Seq(Seq(Atoms)), utf8 : BOOLEAN]

MessageSpec == GivenMessage /\ [][UNCHANGED message]_message

-----------------------------------------------------------------------------

\* However a server or a sender folds the header, the parser finds the
\* identifier in it, brackets or not, and passes over fields without one; it
\* finds none where there is none.  Two runs that read the message from two
\* servers compare the same thing.
FindsTheId ==
  Parse(Header, TRUE) =
    IF Identifying = {} THEN <<>> ELSE message.fields[Min(Identifying)].id

\* fetch_full_by_uid parses the whole message and not its header.  For a
\* message that has an identifier the two agree, whatever the other fields
\* hold and the body quotes, unless the message is not UTF-8, or its body
\* begins with white space just after the field and is taken for its
\* continuation.
WholeMessageAgrees ==
  LET written == {i \in DOMAIN message.body : message.body[i] # <<>>}
      swallowed == /\ Min(Identifying) = Len(message.fields)
                   /\ written # {} /\ message.body[Min(written)][1] = Space
  IN Identifying # {} /\ message.utf8 /\ ~ swallowed
       => Parse(Whole, message.utf8) = Parse(Header, TRUE)
=============================================================================
