CONSTANTS
    Slot = {s1, s2}
    Payload = {p1}
    WorkerId = {w1, w2}
    Node = {n1}
    Peticion = {q1}
    Caso = {c1}
    CasoDe <- UnSoloCaso
    UmbralInfra = 1
    Fallos = {"caida"}
    MaxIntentos = 2
    MaxId = 2
    MaxVersion = 1
    SinItem = SinItem
    SinRespuesta = SinRespuesta
    Nadie = Nadie
SPECIFICATION SpecVivo
PROPERTIES
    TodoPendienteSeResuelve
