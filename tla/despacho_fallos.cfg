CONSTANTS
    Slot = {s1}
    Payload = {p1, p2}
    WorkerId = {w1}
    Node = {}
    Peticion = {q1, q2}
    Caso = {c1}
    CasoDe <- UnSoloCaso
    UmbralInfra = 1
    Fallos = {"redis", "lease", "caida_api"}
    MaxIntentos = 2
    MaxId = 2
    MaxVersion = 2
    SinItem = SinItem
    SinRespuesta = SinRespuesta
    Nadie = Nadie
SPECIFICATION SpecDVivo
PROPERTIES
    ProcessingSeLibera
INVARIANTS
    TypeOKD
    RespuestaHonesta
CHECK_DEADLOCK FALSE
