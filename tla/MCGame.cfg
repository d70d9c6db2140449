SPECIFICATION Spec
CONSTANTS
    Modulus = 32
    Cannon_X_Center = 6
    Cannon_Y_Reset_pos = 13
    Cannon_X_Min = 0
    Cannon_X_Max = 13
    Cannon_X_Step = 2
    Cannon_Size = 3
    laser_X_Center = 6
    laser_Y_Reset_pos = 13
    laser_Y_Min = 0
    laser_Y_Step = 4
    laser_Size = 1
    H_Visible = 14
    V_Visible = 14
    Keycodes <- MCKeycodes
INVARIANTS RestingLaserFollows ShotIsVisible
PROPERTIES FiredFromTheCannon HoldLeftReachesEdge HoldSpaceKeepsFiring ReleaseSpaceFallsSilent
