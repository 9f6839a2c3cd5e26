--------------------------- MODULE MCToolStartup ---------------------------
(***************************************************************************)
(* ToolStartup with screens as they are sold, with files of every length   *)
(* up to one more than there is room for, and with files that take p to    *)
(* where its author did not expect it.                                     *)
(***************************************************************************)
EXTENDS ToolStartup

Screens == {[x_res |-> s[1], y_res |-> s[2], bpp |-> s[3]] :
             s \in {<<128, 64, 8>>, <<320, 240, 16>>, <<480, 272, 16>>,
                    <<800, 480, 32>>, <<1024, 600, 32>>, <<480, 800, 16>>}}

Letters  == {"a", "b", "c", "x"}
Spaces(n)  == [i \in 1 .. n |-> Blank]
Repeat(n)  == [i \in 1 .. n |-> "x"]
\* The words of three letters that 1 to 27 stand for.
Digit(d)   == IF d = 0 THEN "a" ELSE IF d = 1 THEN "b" ELSE "c"
Word(k)    == <<Digit((k - 1) \div 9), Digit(((k - 1) \div 3) % 3), Digit((k - 1) % 3)>>
\* A line: its indent, its first word, and as many letters of a second.
Text(i, w, n) == Spaces(i) \o w \o (IF n = 0 THEN <<>> ELSE Spaces(1) \o Repeat(n))
                 \o <<NewLine>>
Item(w)    == Text(0, w, 1)
Remark(i)  == Text(i, <<Hash>>, 4)

Plain(n) == [k \in 1 .. n |-> Item(Word(k))]
\* The config.conf of the repository, whose last line has no end.
Shipped  == <<Remark(0), Text(0, Word(1), 1) , Text(0, Word(2), 6),
              Word(3) \o Spaces(1) \o Repeat(1)>>
\* Lines that are indented ever more, blank ones, and comments among them.
Deeper   == <<Item(Word(1)), Remark(1), Text(1, Word(2), 1), Remark(2), Text(3, Word(3), 4)>>
Gaps     == <<Item(Word(1)), Text(0, <<>>, 0), Item(Word(2)), Spaces(2)>>
\* Lines that are indented less than one before: cut, hidden by what the buffer
\* still has, and behind their end.
Uneven   == {<<Text(1, Word(1), 1), Text(0, w, n), Remark(0), Text(0, <<"a">>, 0)>> :
              w \in {Word(2), <<"a">>, <<>>}, n \in {0, 3}}
            \cup {<<Text(8, Word(1), n), Text(0, <<"a">>, 0), Remark(0), Item(Word(2))>> :
                   n \in {0, 1}}
\* Lines as long as the buffer, longer, twice as long, and of blanks alone.
Long     == {<<Text(i, w, n), Item(Word(2)), Text(1, Word(3), n)>> :
              i \in {0, 4}, w \in {Word(1), <<Hash>>},
              n \in {BufSize - 7, BufSize - 6, BufSize - 5, BufSize, 2 * BufSize}}
            \cup {<<Text(BufSize - 1, <<>>, 0), Item(Word(1)), Remark(0)>>}

Files == {Plain(n) : n \in 0 .. CONFIG_MAX_NUMBER + 1}
         \cup {Shipped, Deeper, Gaps} \cup Uneven \cup Long
=============================================================================
