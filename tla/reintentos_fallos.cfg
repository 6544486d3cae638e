CONSTANTS
    Slot = {s1}
    Payload = {p1, p2}
    WorkerId = {w1, w2}
    Node = {n1, n2}
    Peticion = {}
    Caso = {c1}
    CasoDe <- UnSoloCaso
    UmbralInfra = 1
    Fallos = {"redis", "lease", "caida"}
    MaxIntentos = 2
    MaxId = 1
    MaxVersion = 2
    SinItem = SinItem
    SinRespuesta = SinRespuesta
    Nadie = Nadie
SYMMETRY Simetria
SPECIFICATION SpecR
INVARIANTS
    TypeOKR
    CopiaExacta
    PendienteReintentable
    ConfirmadoFueEnviado
