---------------------------- MODULE MCContainer ----------------------------
EXTENDS ContainerProps

Asks(mtmc, appearance, own) == [mtmc |-> mtmc, appearance |-> appearance, own_reid |-> own]

\* No fusion, fusion with appearance, and fusion with a ReID model of one's own.
ThreeCommandLines ==
  {Asks(FALSE, FALSE, FALSE), Asks(TRUE, TRUE, FALSE), Asks(TRUE, TRUE, TRUE)}

=============================================================================
