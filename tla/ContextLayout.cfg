SPECIFICATION Spec
CONSTANT NTASKS = 2
PROPERTY FreshStartsAtEntry
