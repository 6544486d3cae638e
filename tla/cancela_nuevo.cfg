CONSTANTS
    Slot = {s1}
    Payload = {p1, p2}
    WorkerId = {w1}
    Node = {}
    Peticion = {q1, q2}
    Caso = {c1}
    CasoDe <- UnSoloCaso
    UmbralInfra = 1
    Fallos = {}
    MaxIntentos = 2
    MaxId = 2
    MaxVersion = 2
    SinItem = SinItem
    SinRespuesta = SinRespuesta
    Nadie = Nadie
SYMMETRY Simetria
SPECIFICATION SpecD
CHECK_DEADLOCK FALSE
PROPERTIES
    CancelaSoloSuperado
