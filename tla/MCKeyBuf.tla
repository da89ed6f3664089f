------------------------------ MODULE MCKeyBuf ------------------------------
EXTENDS KeyBuf

\* Two rows and two columns: keys a and b, a modifier, and Fn, which turns a into f.
A == <<1, 1>>  B == <<1, 2>>  Mod == <<2, 1>>  Fn == <<2, 2>>
Types(code) == [code |-> code, ctrl |-> {}]
MCKeyMap ==
  [l \in BOOLEAN \X {FALSE} |->
     [k \in {1, 2} \X {1, 2} |->
        CASE k = A -> Types(IF l[1] THEN "f" ELSE "a")
          [] k = B -> Types("b")
          [] k = Mod -> [code |-> "none", ctrl |-> {"shift"}]
          [] k = Fn -> [code |-> "none", ctrl |-> {}]]]
MCFn == Fn
MCRows == {1, 2}

\* Nothing, a, b, Fn and a, and three corners of the rectangle.
MCPresses == {{}, {A}, {B}, {A, Fn}, {A, B, Mod}}
=============================================================================
