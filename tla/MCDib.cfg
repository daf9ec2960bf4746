SPECIFICATION DibSpec
CONSTANT dib_way = 2
CONSTANT Window = {a, b, c}
CONSTANT NoWindow = NoWindow
CONSTANT Unused = 9
INVARIANT VictimIsLeastRecent
