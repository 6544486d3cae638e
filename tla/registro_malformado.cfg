SPECIFICATION Spec
CONSTANTS
    r1 = r1
    r2 = r2
    r3 = r3
    r4 = r4
    r5 = r5
    a1 = a1
    a2 = a2
    Registro = {r1, r2}
    Iniciales = {r1, r2}
    Adjunto = {a1, a2}
    ConAnexos = {}
    Rotos = {}
    Ilegibles = {}
    Modos = {"M1"}
    SinCodigo = {r1}
    Blanco = ""
    TamPagina = 2
    MaxPaginas = 2
    TamLote = 1
    MaxFallos = 0
PROPERTIES SanasSeConfirman
