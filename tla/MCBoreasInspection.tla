------------------------ MODULE MCBoreasInspection ------------------------
(***************************************************************************)
(* Records of two bytes: whether and when.  Scans end at the greatest size, *)
(* short of it, between records and within one, and their times lie at both *)
(* ends of the integers.                                                    *)
(***************************************************************************)
EXTENDS BoreasInspection

MCByte == {-1, 0, 1, 2, 3, 8, 9}

MCDecode(record) ==
    CASE record[1] = 9 -> Refused [] record[1] = 8 -> 40 [] OTHER -> record[1] * record[2]

SomeRecords == {<<1, 0>>, <<1, 2>>, <<-1, 3>>, <<9, 0>>, <<8, 0>>}

SomeBytes ==
    {<<>>, <<1>>} \cup SomeRecords
      \cup {a \o b : a, b \in SomeRecords} \cup {a \o <<1>> : a \in SomeRecords}
      \cup {a \o <<1, 0>> \o b : a, b \in {<<1, 0>>, <<1, 2>>}}

Lexeme(seconds, tenths) == [negative |-> seconds < 0, seconds |-> IF seconds < 0 THEN -seconds ELSE seconds, tenths |-> tenths]

SomeGps ==
    {<<>>, <<Lexeme(3, 4)>>, <<Lexeme(3, 15), Lexeme(3, 26)>>, <<Lexeme(3, 35), Lexeme(4, 0)>>,
     <<Lexeme(-4, 0), Lexeme(3, 37)>>, <<Lexeme(-4, 5)>>, <<Lexeme(4, 0), Lexeme(2, 35)>>}

SomePoses == {<<>>, <<6, 7>>, <<7, 7, 9>>, <<7, 6>>, <<6>>, <<8>>}

MCSequencesOnDisk ==
    {[scans |-> [m \in {7} |-> b], gps |-> <<Lexeme(3, 4)>>, poses |-> <<6, 7>>] : b \in SomeBytes}
      \cup {[scans |-> [m \in {7} |-> <<1, 0>>], gps |-> g, poses |-> <<6, 7>>] : g \in SomeGps}
      \cup {[scans |-> [m \in {6, 7} |-> IF m = 6 THEN b ELSE <<1, 1>>], gps |-> <<Lexeme(3, 4)>>, poses |-> p] :
              b \in {<<1, 0>>, <<-1, 3>>, <<1, 0, 1, 2>>}, p \in SomePoses}
      \cup {[scans |-> [m \in s |-> <<1, 0>>], gps |-> <<>>, poses |-> <<>>] : s \in {{}, {1, 2, 3}, {8}, {9}}}
=============================================================================
