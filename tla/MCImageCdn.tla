------------------------------- MODULE MCImageCdn -------------------------------
EXTENDS ImageCdn, TLC

CONSTANTS r1, r2

MCRequest == {r1, r2}
Symmetry == Permutations(MCRequest)

(* One image in two sizes and qualities, 0 and above 100 among them, asked *)
(* for by clients with and without webp.                                   *)
Plainly == [key |-> "cat", w |-> 0, q |-> 0, f |-> "auto"]
Small == [key |-> "cat", w |-> 9, q |-> 101, f |-> "webp"]
NoKey == [Plainly EXCEPT !.key = "missing"]
Malformed == [Plainly EXCEPT !.key = "malformed"]

Get(to, u, accept, tag) ==
    [method |-> "GET", to |-> to, url |-> u, accept |-> accept, tag |-> tag]

MCAsk ==
    {Get("img", Plainly, {"webp"}, 0), Get("img", Small, {}, 0), Get("raw", Plainly, {}, 1),
     [Get("img", Plainly, {}, 0) EXCEPT !.method = "HEAD"],
     [Get("img", Plainly, {}, 0) EXCEPT !.method = "POST"],
     Get("other", Plainly, {}, 0), Get("img", NoKey, {}, 0), Get("raw", Malformed, {}, 0)}
=================================================================================
