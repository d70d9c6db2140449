SPECIFICATION Spec
CONSTANTS
    H_TOTAL = 6
    H_Visible = 3
    HS_Start = 4
    HS_End = 5
    V_TOTAL = 9
    V_Visible = 4
    VS_Start = 5
    VS_End = 7
INVARIANTS TypeOK BlankingFollowsPixel TickAtEndOfSync
PROPERTIES OneTickPerPulse FramesKeepComing
