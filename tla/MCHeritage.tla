----------------------------- MODULE MCHeritage -----------------------------
EXTENDS Heritage

\* Building a function from statements.
W(sp, off, size) == [code |-> "op", rd |-> <<>>, loc |-> At(sp, off, size)]
R(sp, off, size) == [code |-> "use", rd |-> <<At(sp, off, size)>>, loc |-> NoLoc]
RW(a, b) == [code |-> "op", rd |-> <<a>>, loc |-> b]
Call == [code |-> "call", rd |-> <<>>, loc |-> NoLoc]
CallInd(sp, off, size) == [code |-> "call", rd |-> <<At(sp, off, size)>>, loc |-> NoLoc]
Store(sp) == [code |-> "store", rd |-> <<>>, loc |-> At(sp, 0, 0)]
Load(sp, off, size) == [code |-> "load", rd |-> <<>>, loc |-> At(sp, off, size)]
Return == [code |-> "return", rd |-> <<>>, loc |-> NoLoc]

AddStatement(f, b, st) ==
    LET n == LastVn(f)
        rec == [OpRec(st.code, [k \in DOMAIN st.rd |-> n + k], st.loc) EXCEPT !.rd = st.rd]
        read == [f EXCEPT !.vn = @ \o [k \in DOMAIN st.rd |-> FreeAt(st.rd[k])], !.blk[b] = Append(@, LastOp(f) + 1)]
    IN IF st.code = "op" THEN NewOpOut(read, rec, st.loc) ELSE [read EXCEPT !.op = Append(@, rec)]
EmptyFn(n) == [vn |-> <<>>, op |-> <<>>, blk |-> [b \in 0..n |-> <<>>], tin |-> {}, tout |-> {}, pieces |-> {}]
\* body[k] are the statements of block k - 1.
Function(body) ==
    Each(LAMBDA f, b : Each(LAMBDA g, st : AddStatement(g, b - 1, st), f, body[b]), EmptyFn(Len(body) - 1), [k \in DOMAIN body |-> k])

MCGraphs == [diamond |-> (0 :> <<>> @@ 1 :> <<0>> @@ 2 :> <<0>> @@ 3 :> <<1, 2>>),
             loop |-> (0 :> <<>> @@ 1 :> <<0, 2>> @@ 2 :> <<1>> @@ 3 :> <<1>>),
             cross |-> (0 :> <<>> @@ 1 :> <<0, 2>> @@ 2 :> <<0, 1>> @@ 3 :> <<2>>)]
Shapes(gs, A, B, C, D) ==
    {[graph |-> g, f |-> Function(<<a, b, c, Append(d, Return)>>)] : g \in gs, a \in A, b \in B, c \in C, d \in D}

\* Registers: writes and reads of different sizes, a call that returns in 0..3,
\* takes a parameter in 4..7 and leaves 8..11 alone.
Sizes == Shapes({"diamond", "loop", "cross"},
                {<<W("reg", 0, 8)>>, <<W("reg", 0, 4)>>, <<R("reg", 0, 8)>>, <<W("reg", 4, 4), W("reg", 0, 4)>>},
                {<<W("reg", 0, 8)>>, <<W("reg", 4, 4)>>, <<Call>>, <<R("reg", 0, 4), W("reg", 0, 4)>>},
                {<<W("reg", 2, 2)>>, <<R("reg", 4, 4)>>, <<Call>>, <<RW(At("reg", 0, 4), At("reg", 4, 4))>>},
                {<<R("reg", 0, 8)>>, <<R("reg", 2, 2)>>, <<Call, R("reg", 4, 4)>>})
Calls == Shapes({"diamond", "loop"},
                {<<W("reg", 4, 4)>>, <<W("reg", 8, 4), W("reg", 4, 2)>>, <<W("reg", 0, 8)>>},
                {<<Call>>, <<W("reg", 4, 4), Call>>, <<Call, R("reg", 0, 4)>>},
                {<<Call>>, <<RW(At("reg", 0, 4), At("reg", 8, 4))>>, <<Call, W("reg", 4, 4), Call>>},
                {<<R("reg", 8, 4)>>, <<R("reg", 0, 4), W("reg", 0, 4)>>})
\* Calls through a register that they kill, written before or not.
Targets == Shapes({"diamond", "loop", "cross"},
                  {<<>>, <<R("reg", 0, 4)>>, <<CallInd("reg", 0, 4)>>, <<W("reg", 0, 4)>>},
                  {<<CallInd("reg", 0, 4)>>, <<CallInd("reg", 0, 2), R("reg", 0, 4)>>, <<W("reg", 0, 4), CallInd("reg", 0, 4)>>},
                  {<<CallInd("reg", 0, 4)>>, <<R("reg", 0, 4)>>},
                  {<<CallInd("reg", 0, 4)>>, <<R("reg", 0, 8)>>})
\* One- and three-byte neighbours.
Odd == Shapes({"diamond"},
              {<<W("reg", 0, 1)>>, <<W("reg", 1, 3)>>},
              {<<W("reg", 4, 4)>>, <<W("reg", 0, 1), W("reg", 1, 3)>>},
              {<<W("reg", 1, 3)>>, <<R("reg", 0, 1)>>},
              {<<R("reg", 0, 8)>>})
\* The stack, heritaged one pass later, with loads that are resolved late.
Late == Shapes({"diamond", "loop"},
               {<<W("stack", 0, 4)>>, <<W("stack", 0, 4), Load("stack", 0, 4)>>},
               {<<Store("stack")>>, <<Call>>, <<W("stack", 2, 2)>>, <<Load("stack", 0, 4), W("stack", 0, 4)>>},
               {<<R("stack", 0, 4)>>, <<>>},
               {<<Load("stack", 0, 4)>>, <<Load("stack", 0, 2), R("stack", 0, 4)>>})
\* Late loads of bytes that were inputs, or that reach past an old range.
Wide == Shapes({"diamond", "loop"},
               {<<W("stack", 0, 4)>>, <<R("stack", 0, 4)>>},
               {<<Store("stack")>>, <<Call>>},
               {<<>>},
               {<<Load("stack", 0, 4)>>, <<Load("stack", 0, 8)>>, <<Load("stack", 2, 4)>>})
\* A global.
Globals == Shapes({"diamond", "loop"},
                  {<<W("ram", 0, 4)>>, <<R("ram", 0, 4)>>},
                  {<<W("ram", 0, 2)>>, <<Call>>},
                  {<<W("ram", 0, 4)>>, <<Store("ram")>>},
                  {<<>>, <<W("ram", 2, 2)>>})
MCPrograms == Sizes \cup Calls \cup Targets \cup Odd \cup Late \cup Wide \cup Globals
\* The first block is in a loop.
MCEntryGraphs == [head |-> (0 :> <<1>> @@ 1 :> <<0>> @@ 2 :> <<1>>), self |-> (0 :> <<0>> @@ 1 :> <<0>> @@ 2 :> <<1>>)]
MCEntryPrograms ==
    {[graph |-> g, f |-> Function(<<a, b, <<R("reg", 0, 4), Return>>>>)] :
        g \in DOMAIN MCEntryGraphs, a \in {<<R("reg", 0, 4)>>, <<R("reg", 0, 4), W("reg", 0, 4)>>, <<R("reg", 4, 4)>>},
        b \in {<<W("reg", 0, 4)>>, <<R("reg", 0, 4)>>}}
MCSpaces == <<"reg", "ram", "stack">>
MCDelay == [reg |-> 0, ram |-> 0, stack |-> 1]
MCRet == {At("reg", 0, 4)}
MCParams == {At("reg", 4, 4)}
MCUnaffected == {At("reg", 8, 4)}
MCPersist == {At("ram", 0, 4)}
=============================================================================
