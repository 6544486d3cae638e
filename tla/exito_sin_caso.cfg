SPECIFICATION Spec
CONSTANTS
    d1 = d1
    d2 = d2
    f1 = f1
    f2 = f2
    Pdf = Pdf
    Copia = Copia
    Despacho = {d1}
    Escenarios <- MCTodas
    Archivo = {f1, f2}
    Lotes = {{}}
    Directorio = {}
    Tardios = {f1}
    Invalidos = {}
    Colision = TRUE
    MaxFallos = 0
INVARIANTS ExitoConCaso
CHECK_DEADLOCK FALSE
