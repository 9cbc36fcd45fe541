------------------------------ MODULE MCAmdgpu ------------------------------
(* One or two targets, a texture and a colour; images of two cells.        *)
EXTENDS AmdgpuPaints

CONSTANTS t1, t2, tex, red

TwoImages  == {t1, tex}
MCTargets  == {t1, t2}
OneTarget  == {t1}
MCTextures == {tex}
MCSolids   == {red}
NoMasks    == {}
MCCells    == {0, 1}
NoCalls    == {}
OneRect    == {<<{0}>>}
MCCalls    == {<<{0}>>, <<{1}, {1}>>, <<{0}, {1}>>}
AllRules   == {"declared", "steady", "origin", "source", "stream", "room", "alike"}
Undeclared == AllRules \ {"declared"}
Unmetered  == AllRules \ {"stream"}
NoFailures == {}
MayRefuse  == {"submit"}
=============================================================================
