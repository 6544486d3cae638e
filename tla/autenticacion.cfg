SPECIFICATION Spec
CONSTANTS
    p1 = p1
    p2 = p2
    t1 = t1
    t2 = t2
    t3 = t3
    Nadie = Nadie
    Proceso = {p1, p2}
    Tarea = {t1, t2, t3}
    ProcesoDe <- MCProcesoDe
    MaxSondeos = 1
    MaxFallos = 1
    MaxRevocados = 1
INVARIANTS TypeOKA ReintentoConOtroToken SinRenovacionDoble
PROPERTIES SoloInvalidaRechazados PeticionTermina
CHECK_DEADLOCK FALSE
