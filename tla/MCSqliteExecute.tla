--------------------------- MODULE MCSqliteExecute ---------------------------
EXTENDS SqliteExecute

Anonymous == [form |-> "anonymous", n |-> 0]
Numbered(n) == [form |-> "numbered", n |-> n]
Named == [form |-> "named", n |-> 0]

\* Scripts of up to three statements without parameters, with parameters of
\* one form, and with all forms together.
MixedScripts ==
    {<< <<Anonymous>>, <<Anonymous, Anonymous>> >>,
     << <<Anonymous, Anonymous>>, <<>>, <<Anonymous>> >>,
     << <<Numbered(1)>>, <<Numbered(2), Anonymous>> >>,
     << <<Anonymous>>, <<Named>> >>}

NamedScripts == {<< <<Named>> >>}
NumberedScripts == {<< <<Numbered(2), Numbered(1)>> >>}
=============================================================================
