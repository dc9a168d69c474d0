CONSTANTS
    Key = {k1}
    Texture = {x1}
    NoTexture = NoTexture
    Main = Main
    Others = {u1}
    max_tex_mem_usage = 1
    MaxReports = 1
SPECIFICATION SpecTextures
INVARIANTS
    ReportedTextureExists
CHECK_DEADLOCK FALSE
