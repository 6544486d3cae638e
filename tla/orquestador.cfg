SPECIFICATION Spec
CONSTANTS
    d1 = d1
    d2 = d2
    f1 = f1
    f2 = f2
    Pdf = Pdf
    Copia = Copia
    Despacho = {d1, d2}
    Escenarios <- MCPares
    Archivo = {f1, f2}
    Lotes = {{f1}, {f1, f2}}
    Directorio = {d2}
    Tardios = {f1}
    Invalidos = {f2}
    Colision = FALSE
    MaxFallos = 2
INVARIANTS TypeOKO CheckpointVeraz ExitoConAdjuntos SinReenvio AusenteSeSana
PROPERTIES ImplementaQueja DespachoTermina
CHECK_DEADLOCK FALSE
