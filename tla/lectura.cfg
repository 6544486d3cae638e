SPECIFICATION Spec
CONSTANTS
    r1 = r1
    r2 = r2
    r3 = r3
    r4 = r4
    r5 = r5
    a1 = a1
    a2 = a2
    Registro = {r1, r2, r3, r4, r5}
    Iniciales = {r1, r2, r3, r4}
    Adjunto = {a1, a2}
    ConAnexos = {r1, r3}
    Rotos = {r1}
    Ilegibles = {r2}
    Modos = {"M1", "M4"}
    SinCodigo = {}
    Blanco = ""
    TamPagina = 2
    MaxPaginas = 2
    TamLote = 1
    MaxFallos = 1
INVARIANTS TypeOKL SinDuplicados EntregaCompleta ExitoCubreTodo AckVeraz
PROPERTIES SanasSeConfirman
