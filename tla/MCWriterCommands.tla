-------------------------- MODULE MCWriterCommands --------------------------
(* Small instances of WriterCommands. *)
EXTENDS WriterCommands

CONSTANTS a, b, c, x, bad, old
AllEvents == {a, b, c, x, bad, old}
OneInvalid == {bad}
OneLosing == {old}
OneBlocked == {x}
TwoOffered == {a, b}
SomeCmds == {"", "path"}
OnePath == {"path"}
OneByOthers == {a}

\* An event twice, one that does not verify, one that was replaced.
SomeInputs == {<<a, bad, b, a>>, <<old, a, a>>, <<bad>>, <<>>}

\* Two rounds that overlap; uploads beyond the window, downloads beyond a batch.
SomeScripts == {<<[have |-> {a, c, x}, need |-> {b}],
                  [have |-> {a}, need |-> {b, bad, old}]>>,
                <<[have |-> {}, need |-> {x}], [have |-> {a}, need |-> {}]>>}
=============================================================================
