SPECIFICATION Spec
CONSTANTS
    Modulus = 1024
    Cannon_X_Center = 320
    Cannon_Y_Reset_pos = 470
    Cannon_X_Min = 0
    Cannon_X_Max = 639
    Cannon_X_Step = 2
    Cannon_Size = 4
    laser_X_Center = 320
    laser_Y_Reset_pos = 470
    laser_Y_Min = 0
    laser_Y_Step = 7
    laser_Size = 2
    Columns = {0, 320, 638}
INVARIANTS CannonTypeOK CannonOnScreen LaserTypeOK NeverWraps DrawnInItsColumn
PROPERTIES MovesByOneStep SingleShot
