----------------------------- MODULE MCExamples -----------------------------
(***************************************************************************)
(* Examples on small instances: three inputs, three lines, two clients     *)
(* with three bytes each and descriptors for one or two of them, and       *)
(* screens that are large enough and too small for what is drawn.          *)
(***************************************************************************)
EXTENDS Examples

AllReaders  == {"blocking", "nonblock", "poll", "select", "aio_callback", "aio_signal",
                "tslib", "info"}
\* All but the program of the run select_timeout.
AllPrograms == (AllReaders \ {"select"})
               \cup {"semaphore", "condition", "tcp", "udp", "pixel", "freetype"}

Limits == {1, 2}
Panels == {[x_res |-> s[1], y_res |-> s[2], bpp |-> s[3]] :
             s \in {<<128, 64, 8>>, <<160, 128, 8>>, <<480, 272, 16>>, <<800, 480, 32>>}}
Glyphs == {[width |-> 50, rows |-> 46], [width |-> 0, rows |-> 0],
           [width |-> 300, rows |-> 200]}
\* The bytes of the character in GB2312.
Zhong  == <<214, 208>>
=============================================================================
