------------------------------ MODULE MCService ------------------------------
(***************************************************************************)
(* Small instances of Service for TLC.                                     *)
(***************************************************************************)
EXTENDS Service

Empty == ""

Options == {"-D", "-i", "-l", "-m", "-s", "-u"}

\* The words that no option expects, an empty one and a number among them.
Operands == {Empty, "X", "9"}

AllWords == Options \cup Operands

SwitchWords == {"-f", "-i", "-m", "X"}

Digits == {"9"}

\* "X" stands for a word longer than the label's array.
WordLength == [w \in AllWords |-> IF w = Empty THEN 0 ELSE IF w = "X" THEN 9 ELSE 2]

SwitchWordLength == [w \in SwitchWords |-> 2]

Letter == [w \in AllWords \cup SwitchWords |->
             CASE w = "-D" -> "D" [] w = "-f" -> "f" [] w = "-i" -> "i" [] w = "-l" -> "l"
               [] w = "-m" -> "m" [] w = "-s" -> "s" [] w = "-u" -> "u" [] OTHER -> nullptr]

WordLetter == [w \in AllWords |-> Letter[w]]

SwitchWordLetter == [w \in SwitchWords |-> Letter[w]]

\* Around the length SetVolumeLabel truncates at.
LabelLengths == {0, 6, 7, 8}

NoNumbers == {}

=============================================================================
