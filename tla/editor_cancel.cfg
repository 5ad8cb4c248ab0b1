SPECIFICATION MCSpec
CONSTANTS
    u1 = u1
    u2 = u2
    un = un
    d1 = d1
    d2 = d2
    dn = dn
    NewDepartment = dn
    Absent = Absent
    NoDepartment = NoDepartment
    NoBackup = NoBackup
    Departments <- MCDouble
    UniversityOf <- MCDoubleOf
    Parts = {"subjects"}
    Values = {0, 1}
    Blank = 0
    MaxSaves = 2
    InfoFields = {"universityName"}
    Texts = {"", "x"}
    Names = {"x"}
    NoText = ""
    Scores = {0, 1}
    Departments0 <- MCDepartments0
    Kinds = {"university", "department", "major"}
    MaxAdds = 1
    MaxTries = 1
    Sides = {"universities"}
    NetworkFails = TRUE
PROPERTIES
    CancelUndoes
