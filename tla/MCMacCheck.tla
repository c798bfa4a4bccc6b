----------------------------- MODULE MCMacCheck -----------------------------
(* Four players who sum two shares at a time and send to two, so that there *)
(* are two rounds of sums and a relay to two others; openings under way at  *)
(* once, of up to three values, with checks in between.                     *)
EXTENDS MacCheck

Begin_(m, ids) == [op |-> "begin", mc |-> m, ids |-> ids]
End_(m, ids)   == [op |-> "end", mc |-> m, ids |-> ids]
Add_(m, id)    == [op |-> "add", mc |-> m, ids |-> <<id>>]
Check_(m)      == [op |-> "check", mc |-> m, ids |-> <<>>]

(* Two openings under way at once; the value added later calls for a check. *)
Overlapping(m) == <<Begin_(m, <<1>>), Begin_(m, <<2>>), End_(m, <<1>>), End_(m, <<2>>),
                    Add_(m, 3), Check_(m)>>

(* The end of the first opening calls for a check, the second is under way. *)
CheckWithin(m) == <<Begin_(m, <<1, 2>>), Begin_(m, <<3>>), End_(m, <<1, 2>>), End_(m, <<3>>),
                    Check_(m)>>

(* The same with an opening for the other MAC check of the thread.          *)
TwoFields(m, n) == <<Begin_(m, <<1, 2, 3>>), Begin_(n, <<4>>), End_(m, <<1, 2, 3>>), End_(n, <<4>>),
                     Check_(m), Check_(n)>>

Case(m, p) == [method |-> m, prog |-> p]

MCCases == {Case("tree", Overlapping("mcp")), Case("direct", CheckWithin("mcp")),
            Case("passing", CheckWithin("mcp")), Case("direct", TwoFields("mcp", "mc2"))}
=============================================================================
