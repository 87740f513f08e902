------------------------------- MODULE MCIOMap -------------------------------
EXTENDS IOMap

At(start, len) == [start |-> start, len |-> len]
K(o, obits, i, ibits, no) ==
  [O |-> o, Obits |-> obits, I |-> i, Ibits |-> ibits, noLRW |-> no]

MCKinds ==
  {K(<<>>, 0, <<>>, 0, FALSE),
   K(<<At(10, 1)>>, 5, <<>>, 0, FALSE),
   K(<<>>, 0, <<At(20, 1)>>, 3, FALSE),
   K(<<At(10, 4)>>, 32, <<>>, 0, FALSE),
   K(<<At(10, 2)>>, 16, <<At(20, 1)>>, 8, FALSE),
   K(<<At(10, 1), At(15, 1)>>, 16, <<At(20, 2), At(22, 1)>>, 20, TRUE),
   K(<<>>, 0, <<At(20, 1), At(25, 1), At(30, 2)>>, 32, FALSE)}
=============================================================================
