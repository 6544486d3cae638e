CONSTANTS
    Slot = {s1, s2}
    Payload = {p1}
    WorkerId = {w1, w2}
    Node = {n1, n2}
    Peticion = {q1}
    Caso = {c1}
    CasoDe <- UnSoloCaso
    UmbralInfra = 1
    Fallos = {"redis", "caida"}
    MaxIntentos = 3
    MaxId = 2
    MaxVersion = 1
    SinItem = SinItem
    SinRespuesta = SinRespuesta
    Nadie = Nadie
SYMMETRY Simetria
SPECIFICATION SpecR
INVARIANTS
    ExclusionPorCaso
PROPERTIES
    EntregaUnica
    SpecAbierta
