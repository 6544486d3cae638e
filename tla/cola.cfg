CONSTANTS
    Slot = {s1}
    Payload = {p1, p2}
    WorkerId = {w1, w2}
    MaxIntentos = 2
    MaxId = 2
    MaxVersion = 2
    SinItem = SinItem
    SinRespuesta = SinRespuesta
    Nadie = Nadie
SYMMETRY Simetria
SPECIFICATION Spec
INVARIANTS
    TypeOK
    UnSlotPorObligacion
    PendienteVisible
    EstadoFielAlConjunto
    ClaimSoloDePendiente
PROPERTIES
    ContenidoCambiaConVersion
    TerminalEstable
