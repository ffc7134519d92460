----------------------------- MODULE MCHelpers -----------------------------
(***************************************************************************)
(* The two helpers without a state of their own in the program: one call   *)
(* of with_retry, or one message for parse_message_id.                     *)
(***************************************************************************)
EXTENDS Retry, MessageId, SequencesExt

MCAtoms == {Space, KEY, "<", ">", "a", "b", "subject:", "text"}

\* What stands before an identifier, the identifier, what stands after it.
Values ==
  { << <<>>, <<>>, <<>> >>, << <<Space>>, <<>>, <<>> >>,
    << <<Space, "<">>, <<>>, <<">">> >>, << <<"<", Space>>, <<>>, <<">">> >>,
    << <<Space, "<">>, <<"a">>, <<">">> >>,
    << <<Space, Space, "<">>, <<"b">>, <<">", Space>> >>,
    << <<"<">>, <<"a", "b">>, <<">">> >>, << <<Space>>, <<"b">>, <<Space>> >> }

\* Every way to fold a value at its white space.
Folded(n, v) ==
  LET text == <<n>> \o v[1] \o v[2] \o v[3]
      places == {i \in 1 .. Len(text) - 1 : text[i + 1] = Space}
  IN { [name |-> n, open |-> v[1], id |-> v[2], close |-> v[3],
        ends |-> SetToSortSeq(s \cup {Len(text)}, <)] : s \in SUBSET places }
MCFields ==
  UNION {Folded(KEY, v) : v \in Values}
    \cup Folded("subject:", << <<Space, "<">>, <<"b">>, <<">">> >>)

Bodies ==
  { <<>>, << <<"text">> >>, << <<Space, "text">> >>,
    << <<>>, <<Space, "text">> >>,
    << <<KEY, Space, "<", "b", ">">> >> }

Messages ==
  [fields : {<<>>} \cup {<<f>> : f \in MCFields} \cup (MCFields \X MCFields),
   body : Bodies, utf8 : BOOLEAN]

Nothing == [fields |-> <<>>, body |-> <<>>, utf8 |-> TRUE]

MCInit ==
  \/ Init /\ message = Nothing
  \/ /\ message \in Messages /\ GivenMessage
     /\ build = "release" /\ retries = 0 /\ attempt = 0 /\ pc = "ok"
     /\ pause = 0 /\ reported = 0 /\ calls = 1

\* The runtime polls the future and its timer; nothing makes a call answer.
MCSpec ==
  MCInit /\ [][Next /\ UNCHANGED message]_<<vars, message>>
         /\ WF_vars(Step /\ UNCHANGED message)
=============================================================================
