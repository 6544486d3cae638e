CONSTANTS
    Slot = {s1}
    Payload = {p1, p2}
    WorkerId = {w1, w2}
    Node = {n1}
    Peticion = {q1, q2}
    Caso = {c1}
    CasoDe <- UnSoloCaso
    UmbralInfra = 1
    Fallos = {"caida"}
    MaxIntentos = 2
    MaxId = 1
    MaxVersion = 3
    SinItem = SinItem
    SinRespuesta = SinRespuesta
    Nadie = Nadie
SYMMETRY Simetria
SPECIFICATION SpecD
INVARIANTS
    ExclusionDespacho
    ProcessingTieneDueno
    RespuestaHonesta
    ConfirmadoFueEnviado
